---------------------------- MODULE Spec2Model ----------------------------
(***************************************************************************)
(* The Router / Layer / Route dispatch engine of express-next              *)
(* (src/src/router/index.js, layer.js, route.js) as a state machine.       *)
(*                                                                         *)
(* Strings of the program (URLs, paths) are sequences of one-character     *)
(* strings, so that slice / indexOf / concatenation are computed as the    *)
(* code computes them.  Error values and the sentinels are the strings     *)
(* "none" (null / undefined), "route", "router", "e1", "e2".               *)
(***************************************************************************)
EXTENDS Integers, Sequences, FiniteSets, TLC

VARIABLES routers, self, nfn, phase, req, frames, pc, sent, h,
          matched, parked, settings, app

vars == <<routers, self, nfn, phase, req, frames, pc, sent, h,
         matched, parked, settings, app>>

(***************************************************************************)
(* Bounds of the model.                                                    *)
(***************************************************************************)
\* layers per Router stack
MaxStack == 2
\* layers per Route stack
MaxRouteLen == 2
\* handler functions registered in all (a mounted sub-router is not counted)
MaxHandlers == 3
\* layers per Router stack where the layers capture parameters
MaxParamStack == 3
\* callbacks registered with param for one name
MaxCallbacks == 2
MaxOptStack == 3
SyncLayers == 102

\* next: "max sync stack", if (++sync > 100)
SyncLimit == 100

(***************************************************************************)
(* Alphabets the inputs are drawn from.                                    *)
(***************************************************************************)
Undef == <<"undefined">>
Empty == <<>>
Slash == <<"/">>
Star == <<"*">>
PathA == <<"/", "a">>
PathB == <<"/", "b">>
PathAB == <<"/", "a", "/", "b">>
Host == <<"h", "t", "t", "p", ":", "/", "/", "h">>

PathId == <<"/", ":id">>
PathAId == <<"/", "a", "/", ":id">>
PathIdX == <<"/", ":id", "/", ":x">>
RegExpA == <<"^", "/", "a">>
PathAA == <<"/", "a", "/", "a">>
Percent == <<"/", "%">>
PathEsc == <<"/", "%", "6", "1">>
PathAb == <<"/", "a", "b">>
PathADotB == <<"/", "a", ".", "b">>
\* a value a param callback leaves in req.params
Changed == <<"v">>

UsePaths == {Slash, PathA, Star}
PathX == <<"/", ":x">>

MergeMountPaths == {Slash, PathId, Star}

MergeUsePaths == {Slash, PathId, PathX, Star}

MergeUrls == {PathAB}

ParamUsePaths == {Slash, PathId, PathAId, PathIdX}
ParamUrls == {PathAB, PathAA}
TwoUrls == {PathAB, PathB \o PathA}
MatchUsePaths == {Slash, PathId, Star, RegExpA}
MatchUrls == {PathAB, Percent, PathEsc, PathAb, PathADotB}
RoutePaths == {PathAB}
Urls == {PathA, PathAB, Host}
MountUrls == {PathA, PathA \o Slash, PathAB, PathA \o <<"?", "q">>, Host, Host \o PathA}
Methods == {"GET", "HEAD", "POST", "OPTIONS"}
Verbs == {"get", "head", "post"}
OptVerbs == {"get", "head", "post", "options"}
OptRoutePaths == {PathA, PathAB}
Errs == {"e1", "e2"}
RouterIds == {"R0", "R1"}

(***************************************************************************)
(* String helpers (JavaScript String.prototype semantics, 0-based).        *)
(***************************************************************************)
Min(a, b) == IF a < b THEN a ELSE b

\* s.slice(from): from >= 0
Slice(s, from) == IF from >= Len(s) THEN <<>> ELSE SubSeq(s, from + 1, Len(s))

\* s.substring(0, to): a negative `to` counts as 0
Substring0(s, to) == IF to <= 0 THEN <<>> ELSE SubSeq(s, 1, Min(to, Len(s)))

\* s.indexOf(ch, from) for a one-character needle; -1 when absent
IndexOfFrom(s, ch, from) ==
    LET hits == {i \in (from + 1)..Len(s) : s[i] = ch}
    IN  IF hits = {} THEN -1
        ELSE (CHOOSE i \in hits : \A j \in hits : i <= j) - 1

\* s.indexOf(sub); -1 when absent
IndexOfSub(s, sub) ==
    LET hits == {i \in 1..(Len(s) - Len(sub) + 1) :
                    SubSeq(s, i, i + Len(sub) - 1) = sub}
    IN  IF hits = {} THEN -1
        ELSE (CHOOSE i \in hits : \A j \in hits : i <= j) - 1

StartsWith(s, p) == Len(p) <= Len(s) /\ SubSeq(s, 1, Len(p)) = p

\* the last element of a non-empty sequence
LastOf(s) == s[Len(s)]

(***************************************************************************)
(* index.js: getProtohost, getPathname                                     *)
(***************************************************************************)
getProtohost(url) ==
    IF url = Undef \/ Len(url) = 0 \/ url[1] = "/" THEN Empty
    ELSE LET searchIndex == IndexOfFrom(url, "?", 0)
             pathLength == IF searchIndex # -1 THEN searchIndex ELSE Len(url)
             fqdnIndex == IndexOfSub(Substring0(url, pathLength), <<":", "/", "/">>)
         IN  IF fqdnIndex # -1
             THEN Substring0(url, IndexOfFrom(url, "/", 3 + fqdnIndex))
             ELSE Empty

\* url.parse(req.url).pathname of Node for origin-form ('/p?q') and
\* absolute-form http ('http://h/p?q') request targets: the path up to the
\* query; an http URL with a host and no path has pathname '/'.
\* the end of the host of an absolute-form url whose '://' is at fq
HostEnd(url, fq) ==
    CHOOSE n \in (fq + 3)..Len(url) :
        /\ n = Len(url) \/ url[n + 1] \in {"/", "?"}
        /\ \A k \in (fq + 4)..n : url[k] \notin {"/", "?"}

\* the part of s before the first '?'
BeforeQuery(s) ==
    IF \E i \in 1..Len(s) : s[i] = "?"
    THEN SubSeq(s, 1, (CHOOSE i \in 1..Len(s) :
                          s[i] = "?" /\ \A j \in 1..(i - 1) : s[j] # "?") - 1)
    ELSE s

getPathname(url) ==
    IF Len(url) > 0 /\ url[1] # "/" /\ IndexOfSub(url, <<":", "/", "/">>) # -1
    THEN IF BeforeQuery(Slice(url, HostEnd(url, IndexOfSub(url, <<":", "/", "/">>)))) = Empty
         THEN Slash
         ELSE BeforeQuery(Slice(url, HostEnd(url, IndexOfSub(url, <<":", "/", "/">>))))
    ELSE BeforeQuery(url)

(***************************************************************************)
(* layer.js: Layer                                                         *)
(*                                                                         *)
(* A layer is [kind, path, end, arity, sub, route]: kind "mw" (a handler   *)
(* function added with use), "router" (a mounted sub-router, a function    *)
(* of three parameters) or "route" (Route.dispatch bound to `route`);      *)
(* arity is fn.length.  A Route is [stack, methods]; its layers are        *)
(* [method, arity] with method "none" for layers added with all().         *)
(***************************************************************************)
NoRoute == [stack |-> <<>>, methods |-> <<>>]

Layer(kind, path, end, arity, sub) ==
    [kind |-> kind, path |-> path, end |-> end, arity |-> arity,
     sub |-> sub, route |-> NoRoute]

fast_star(layer) == layer.path = Star

fast_slash(layer) == layer.path = Slash /\ ~layer.end

\* A path given to use / route is a string whose elements are literal
\* characters and the placeholders ":id" and ":x", or a RegExp: the element
\* "^" followed by the literal characters the RegExp matches at the start
\* of the path (/^\/a/ is <<"^", "/", "a">>).
ParamTokens == {":id", ":x"}

Names == {"id", "x"}

KeyName(token) == IF token = ":id" THEN "id" ELSE "x"

IsRegExp(path) == path # Empty /\ path[1] = "^"

\* the keys pathRegexp(path, keys, options) collects: the placeholder names in
\* the order of the pattern, the positional key 0 for '*', none for a RegExp
\* without groups
RECURSIVE keysFrom(_, _)
keysFrom(path, i) ==
    IF i > Len(path) THEN <<>>
    ELSE IF path[i] \in ParamTokens THEN <<KeyName(path[i])>> \o keysFrom(path, i + 1)
    ELSE keysFrom(path, i + 1)

keys(path) ==
    IF path = Star THEN <<"0">> ELSE IF IsRegExp(path) THEN <<>> ELSE keysFrom(path, 1)

\* req.params / layer.params: undefined, or an object with the positional
\* keys 0.. (pos) and the named keys (named; Undef: the key is not there)
NoNamed == [n \in Names |-> Undef]

NoParams == [def |-> FALSE, pos |-> <<>>, named |-> NoNamed]

Params(pos) == [def |-> TRUE, pos |-> pos, named |-> NoNamed]

\* the result of Layer.match: true (ok), false, or a thrown error (err)
NoMatch == [ok |-> FALSE, err |-> "none", path |-> Undef, params |-> NoParams]

Thrown(e) == [ok |-> FALSE, err |-> e, path |-> Undef, params |-> NoParams]

\* the first index >= j of path that holds '/' or lies behind the path
SegEnd(path, j) ==
    CHOOSE k \in j..(Len(path) + 1) :
        /\ k = Len(path) + 1 \/ path[k] = "/"
        /\ \A n \in j..(k - 1) : path[n] # "/"

NoExec == [ok |-> FALSE, m0 |-> Empty, caps |-> <<>>]

\* the tokens of a string pattern from i on against path from j on; a
\* placeholder is the group ([^\/]+?), in the patterns of this model always
\* followed by '/' or the end of the pattern, so it takes a whole segment
RECURSIVE exec_from(_, _, _, _, _)
exec_from(pat, i, path, j, caps) ==
    IF i > Len(pat) THEN [ok |-> TRUE, m0 |-> SubSeq(path, 1, j - 1), caps |-> caps]
    ELSE IF pat[i] \in ParamTokens
    THEN IF SegEnd(path, j) = j THEN NoExec
         ELSE exec_from(pat, i + 1, path, SegEnd(path, j),
                        Append(caps, SubSeq(path, j, SegEnd(path, j) - 1)))
    ELSE IF j <= Len(path) /\ path[j] = pat[i]
    THEN exec_from(pat, i + 1, path, j + 1, caps)
    ELSE NoExec

\* this.regexp.exec(path): [ok, m0: match[0], caps: match[1..]].  For a
\* string pattern that does not end in '/' path-to-regexp 0.1.7 compiles
\*   end: false  ->  ^pattern\/?(?=\/|$)      end: true (not strict)  ->  ^pattern\/?$
\* a RegExp is used as it is
regexp_exec(layer, path) ==
    IF IsRegExp(layer.path)
    THEN IF StartsWith(path, Tail(layer.path))
         THEN [ok |-> TRUE, m0 |-> Tail(layer.path), caps |-> <<>>]
         ELSE NoExec
    ELSE LET m == exec_from(layer.path, 1, path, 1, <<>>)
             rest == Slice(path, Len(m.m0))
         IN  IF ~m.ok THEN NoExec
             ELSE IF rest = Empty THEN m
             ELSE IF rest[1] # "/" THEN NoExec
             ELSE IF layer.end
                  THEN IF Len(rest) = 1 THEN [m EXCEPT !.m0 = @ \o Slash] ELSE NoExec
                  ELSE IF Len(rest) = 1 \/ rest[2] = "/"
                       THEN [m EXCEPT !.m0 = @ \o Slash] ELSE m

\* the URIError of decodeURIComponent after decode_param has set its message
\* and err.status = err.statusCode = 400
DecodeError == "URIError(400)"

\* decodeURIComponent(val), for the escapes the URLs of this model hold: %61
\* and %62 are 'a' and 'b'; a '%' that is not followed by two hexadecimal
\* digits, or that encodes a lone byte 0xa0..0xbf, is a URIError
RECURSIVE decodeURIComponent(_)
decodeURIComponent(val) ==
    IF val = Empty THEN [ok |-> TRUE, val |-> Empty]
    ELSE IF val[1] # "%"
    THEN LET r == decodeURIComponent(Tail(val))
         IN  IF r.ok THEN [ok |-> TRUE, val |-> <<val[1]>> \o r.val] ELSE r
    ELSE IF Len(val) >= 3 /\ val[2] = "6" /\ val[3] \in {"1", "2"}
    THEN LET r == decodeURIComponent(Slice(val, 3))
         IN  IF r.ok
             THEN [ok |-> TRUE, val |-> <<IF val[3] = "1" THEN "a" ELSE "b">> \o r.val]
             ELSE r
    ELSE [ok |-> FALSE, val |-> Empty]

\* decode_param(val): [ok, val]; not ok: DecodeError is thrown
decode_param(val) ==
    IF val = Undef \/ val = Empty THEN [ok |-> TRUE, val |-> val]
    ELSE decodeURIComponent(val)

\* the captures decoded in order: [ok, vals]; not ok: decode_param threw
RECURSIVE decode_all(_)
decode_all(caps) ==
    IF caps = <<>> THEN [ok |-> TRUE, vals |-> <<>>]
    ELSE IF ~decode_param(caps[1]).ok THEN [ok |-> FALSE, vals |-> <<>>]
    ELSE LET r == decode_all(Tail(caps))
         IN  IF r.ok THEN [ok |-> TRUE, vals |-> <<decode_param(caps[1]).val>> \o r.vals]
             ELSE r

\* params[key.name] = val for the keys of the pattern
store_values(ks, vals) ==
    [def |-> TRUE, pos |-> <<>>,
     named |-> [n \in Names |->
                  IF \E k \in 1..Len(ks) : ks[k] = n
                  THEN vals[CHOOSE k \in 1..Len(ks) :
                              ks[k] = n /\ \A k2 \in (k + 1)..Len(ks) : ks[k2] # n]
                  ELSE Undef]]

\* Layer.match: true with layer.path and layer.params set, false, or the
\* error decode_param threw
match(layer, path) ==
    IF path = Undef THEN NoMatch
    ELSE IF fast_slash(layer)
    THEN [ok |-> TRUE, err |-> "none", path |-> Empty, params |-> Params(<<>>)]
    ELSE IF fast_star(layer)
    THEN IF decode_param(path).ok
         THEN [ok |-> TRUE, err |-> "none", path |-> path,
               params |-> Params(<<decode_param(path).val>>)]
         ELSE Thrown(DecodeError)
    ELSE IF ~regexp_exec(layer, path).ok THEN NoMatch
    ELSE IF ~decode_all(regexp_exec(layer, path).caps).ok THEN Thrown(DecodeError)
    ELSE [ok |-> TRUE, err |-> "none", path |-> regexp_exec(layer, path).m0,
          params |-> store_values(keys(layer.path),
                                  decode_all(regexp_exec(layer, path).caps).vals)]

\* a variant of matchLayer whose catch clause answers false
matchLayer_false(layer, path) ==
    IF match(layer, path).err # "none" THEN NoMatch ELSE match(layer, path)

\* matchLayer: the result of layer.match, a thrown error as a value
matchLayer(layer, path) == match(layer, path)

\* the fields params and path of a Layer after its constructor
NoFields == [params |-> NoParams, path |-> Undef]

\* a variant of params_reset: the object the field holds is kept
params_kept(this) == IF this.params.def THEN this.params ELSE Params(<<>>)

\* this.params = {}
params_reset(this) == Params(<<>>)

\* the captures before the first one decode_param throws on, decoded
RECURSIVE decoded_before_throw(_)
decoded_before_throw(caps) ==
    IF caps = <<>> \/ ~decode_param(caps[1]).ok THEN <<>>
    ELSE <<decode_param(caps[1]).val>> \o decoded_before_throw(Tail(caps))

\* params[prop] = val for the first Len(vals) keys of the pattern
store_onto(params, ks, vals) ==
    [params EXCEPT !.named =
        [n \in Names |->
           IF \E k \in 1..Len(vals) : ks[k] = n
           THEN vals[CHOOSE k \in 1..Len(vals) :
                       ks[k] = n /\ \A k2 \in (k + 1)..Len(vals) : ks[k2] # n]
           ELSE params.named[n]]]

\* Layer.match: the fields params and path of the Layer (this) when match
\* returns or throws
match_this(this, layer, path) ==
    \* this.params = {}
    LET params == params_reset(this)
    IN  IF path = Undef THEN NoFields
        ELSE IF fast_slash(layer) THEN [params |-> params, path |-> Empty]
        ELSE IF fast_star(layer)
        THEN IF decode_param(path).ok
             THEN [params |-> [params EXCEPT !.pos = <<decode_param(path).val>>],
                   path |-> path]
             ELSE [params |-> params, path |-> this.path]
        ELSE IF ~regexp_exec(layer, path).ok THEN NoFields
        ELSE [params |-> store_onto(params, keys(layer.path),
                                    decoded_before_throw(regexp_exec(layer, path).caps)),
              path |-> regexp_exec(layer, path).m0]

\* the fields of the layers of a stack after matchLayer was called with path
\* for the layers from to to: fields holds them for the layers match was
\* ever called for
match_all(fields, stack, from, to, path) ==
    [j \in 1..(IF to > Len(fields) THEN to ELSE Len(fields)) |->
        IF j \in from..to
        THEN match_this(IF j <= Len(fields) THEN fields[j] ELSE NoFields, stack[j], path)
        ELSE IF j <= Len(fields) THEN fields[j] ELSE NoFields]

(***************************************************************************)
(* index.js: mergeParams; access to req.params[name]                       *)
(***************************************************************************)
\* a deleted / never assigned positional key
Hole == <<"hole">>

\* the loop "offset numeric indices in params before merge" from index i down:
\* p holds the positional keys 0..Len(p)-1 of params
RECURSIVE offset(_, _, _)
offset(p, i, o) ==
    IF i < 0 THEN p
    ELSE offset([[p EXCEPT ![i + o + 1] = p[i + 1]]
                    EXCEPT ![i + 1] = IF i < o THEN Hole ELSE @], i - 1, o)

\* a variant of spread_named: a key of obj is kept
spread_named_kept(obj, params) ==
    [n \in Names |-> IF obj[n] # Undef THEN obj[n] ELSE params[n]]

\* { ...obj, ...params } on the named keys
spread_named(obj, params) ==
    [n \in Names |-> IF params[n] # Undef THEN params[n] ELSE obj[n]]

\* { ...obj, ...params } on the positional keys, params with holes
spread_pos(obj, params) ==
    [k \in 1..(IF Len(obj) > Len(params) THEN Len(obj) ELSE Len(params)) |->
        IF k <= Len(params) /\ params[k] # Hole THEN params[k]
        ELSE IF k <= Len(obj) THEN obj[k] ELSE Hole]

mergeParams(params, parent) ==
    IF ~parent.def THEN params
    ELSE IF Len(params.pos) = 0 \/ Len(parent.pos) = 0
    THEN [def |-> TRUE, pos |-> spread_pos(parent.pos, params.pos),
          named |-> spread_named(parent.named, params.named)]
    ELSE [def |-> TRUE,
          pos |-> spread_pos(parent.pos,
                      offset(params.pos \o [k \in 1..Len(parent.pos) |-> Hole],
                             Len(params.pos) - 1, Len(parent.pos))),
          named |-> spread_named(parent.named, params.named)]

\* the object parent after mergeParams(params, parent): obj is a copy, and
\* only keys of params are assigned or deleted
mergeParams_parent(params, parent) == parent

\* a variant of next_params: the parent's params are always merged in
next_params_merged(merge, params, parentParams) == mergeParams(params, parentParams)

\* next: req.params = self.mergeParams ? mergeParams(layer.params,
\* parentParams) : layer.params
next_params(merge, params, parentParams) ==
    IF merge THEN mergeParams(params, parentParams) ELSE params

\* req.params[name]; the key "0" is the first positional key
ParamGet(params, name) ==
    IF name \in Names THEN params.named[name]
    ELSE IF Len(params.pos) > 0 THEN params.pos[1] ELSE Undef

\* req.params[name] = val
ParamSet(params, name, val) ==
    IF name \in Names THEN [params EXCEPT !.named[name] = val]
    ELSE [params EXCEPT !.pos = <<val>> \o Tail(@)]

(***************************************************************************)
(* route.js: Route                                                         *)
(***************************************************************************)
Has(methods, name) == \E i \in 1..Len(methods) : methods[i] = name

AddKey(methods, name) == IF Has(methods, name) THEN methods ELSE Append(methods, name)

toLowerCase(m) ==
    CASE m = "GET" -> "get" [] m = "HEAD" -> "head" [] m = "POST" -> "post"
      [] m = "OPTIONS" -> "options" [] OTHER -> m

toUpperCase(m) ==
    CASE m = "get" -> "GET" [] m = "head" -> "HEAD" [] m = "post" -> "POST"
      [] m = "options" -> "OPTIONS" [] m = "_all" -> "_ALL" [] OTHER -> m

_can_handle(route, method) ==
    IF Has(route.methods, "_all") THEN TRUE
    ELSE LET name == toLowerCase(method)
             name2 == IF name = "head" /\ ~Has(route.methods, "head") THEN "get" ELSE name
         IN  Has(route.methods, name2)

_handleable_method(route) ==
    LET methods == IF Has(route.methods, "get") /\ ~Has(route.methods, "head")
                   THEN Append(route.methods, "head") ELSE route.methods
    IN  [i \in 1..Len(methods) |-> toUpperCase(methods[i])]

\* variants of dispatch_method: HEAD always served by the GET handlers, and
\* HEAD never served by them
dispatch_method_always_get(route, method) ==
    IF method = "HEAD" THEN "get" ELSE toLowerCase(method)

dispatch_method_no_fallback(route, method) == toLowerCase(method)

\* the method Route.dispatch compares layer.method with
dispatch_method(route, method) ==
    LET m == toLowerCase(method)
    IN  IF m = "head" /\ ~Has(route.methods, "head") THEN "get" ELSE m

\* Route.all(handle): one layer with method undefined
all(route, arity) ==
    [stack |-> Append(route.stack, [method |-> "none", arity |-> arity]),
     methods |-> AddKey(route.methods, "_all")]

\* Route[method](handle)
_registerRouteHandler(route, method, arity) ==
    [stack |-> Append(route.stack, [method |-> method, arity |-> arity]),
     methods |-> AddKey(route.methods, method)]

(***************************************************************************)
(* index.js: registration                                                  *)
(***************************************************************************)
\* Router.use(path, fn): one prefix-matching layer
use(stack, path, arity, sub) ==
    Append(stack, Layer(IF sub = "none" THEN "mw" ELSE "router", path, FALSE, arity, sub))

\* the values Router.use(...args) is given: a function, a string, an array
Fn == [t |-> "function", v |-> <<>>]

Str(path) == [t |-> "string", v |-> path]

Arr(elems) == [t |-> "array", v |-> elems]

\* while (Array.isArray(arg0) && arg0.length) arg0 = arg0[0]
RECURSIVE first_of(_)
first_of(arg0) ==
    IF arg0.t = "array" /\ Len(arg0.v) > 0 THEN first_of(arg0.v[1]) ELSE arg0

\* args.flat(Infinity)
RECURSIVE flat(_)
flat(args) ==
    IF args = <<>> THEN <<>>
    ELSE IF args[1].t = "array" THEN flat(args[1].v) \o flat(Tail(args))
    ELSE <<args[1]>> \o flat(Tail(args))

\* the loop of Router.use over callbacks from i on: a layer for each function
\* up to the first value that is not one, for which TypeError is thrown
RECURSIVE use_each(_, _, _, _)
use_each(stack, path, callbacks, i) ==
    IF i > Len(callbacks) THEN [stack |-> stack, thrown |-> "none"]
    ELSE IF callbacks[i].t # "function" THEN [stack |-> stack, thrown |-> "TypeError"]
    ELSE use_each(use(stack, path, 3, "none"), path, callbacks, i + 1)

\* Router.use(...args): [stack, thrown]
use_args(stack, args) ==
    LET shifted == /\ Len(args) > 0 /\ args[1].t = "array"
                   /\ first_of(args[1]).t # "function"
        flattened == flat(IF shifted THEN Tail(args) ELSE args)
        \* if (!path): path = callbacks.shift(), or '/'
        taken == ~shifted /\ (flattened = <<>> \/ flattened[1].t # "function")
        path == IF shifted THEN args[1]
                ELSE IF ~taken THEN Str(Slash)
                ELSE IF flattened = <<>> THEN Str(Undef) ELSE flattened[1]
        callbacks == IF taken /\ flattened # <<>> THEN Tail(flattened) ELSE flattened
    IN  IF callbacks = <<>> THEN [stack |-> stack, thrown |-> "TypeError"]
        ELSE use_each(stack, path, callbacks, 1)

\* Router.route(path): one exact-matching layer holding a new Route
route(stack, path) == Append(stack, Layer("route", path, TRUE, 3, "none"))

\* a variant of appendMethods that keeps duplicates
appendMethods_concat(list, addition) == list \o addition

appendMethods(list, addition) ==
    LET RECURSIVE added(_, _)
        added(l, i) == IF i > Len(addition) THEN l ELSE added(AddKey(l, addition[i]), i + 1)
    IN  added(list, 1)



(***************************************************************************)
(* The state.                                                              *)
(*   routers  the stack of each Router (R0: the router a request enters,   *)
(*            R1: a router mounted in R0 with use)                         *)
(*   self     the other fields of each Router: params (per name the        *)
(*            number of callbacks registered with param) and mergeParams   *)
(*   nfn      the number of handler functions registered                   *)
(*   phase    "setup" while layers are registered, "run" once a request    *)
(*            has been dispatched                                          *)
(*   req      the request object                                           *)
(*   frames   the activations of Router.handle and Route.dispatch that     *)
(*            have not finished, innermost last, with their local          *)
(*            variables                                                    *)
(*   pc       where control is: [op, err]                                  *)
(*              "next"      next(err) of the innermost activation is       *)
(*                          called                                         *)
(*              "scan"      Router next has restored the URL and looks     *)
(*                          for the next matching layer                    *)
(*              "fn"        a handler function runs (err: its error        *)
(*                          argument, "none" for a 3-parameter handler)    *)
(*              "callback"  Route.dispatch calls its callback with err     *)
(*              "done"      done(err) of the innermost Router is called    *)
(*              "out"       the outermost callback was called with err     *)
(*              "sent"      the automatic OPTIONS response was sent        *)
(*              "end"       a handler ended the request without next       *)
(*   sent     the Allow list of the automatic OPTIONS response             *)
(*   h        history, read by the properties only:                        *)
(*              trace      the invocations so far, [r, li, ri]: layer li   *)
(*                         of router r was handed the request (ri = 0),    *)
(*                         or handler ri of the Route in that layer ran    *)
(*              how, val   what the handler that ran last did: how is      *)
(*                         "next" or "throw" or "end", val the argument    *)
(*              sigRoute   the handlers <<r, li, ri>> that called          *)
(*                         next('route')                                   *)
(*              sigRouter  <<r, n>>: 'router' was signalled in router r    *)
(*                         when trace had n entries                        *)
(*              ptrace     the param callbacks started so far,             *)
(*                         [r, li, name, k, val, at]: callback k of name   *)
(*                         for layer li of router r with value val, when   *)
(*                         trace had `at` entries                          *)
(*              phow, pval what the param callback that ran last did       *)
(*              pleft      per name, req.params[name] as the param         *)
(*                         callback that called its continuation last     *)
(*                         left it                                        *)
(*              args       what Router.use was called with                   *)
(*              explicit   for each application and key the value of its    *)
(*                         last call of set(key, value) after it was        *)
(*                         created, Absent when there was none              *)
(*              call       the layer and the path of the call of match that *)
(*                         was made last, and the fields of the layer       *)
(*                         before it; li = 0 when none was                  *)
(*              outAt      the length of trace when the outer callback was   *)
(*                         invoked first, -1 before                        *)
(*              deferred   a call of next was handed to setImmediate         *)
(*              clean      for an OPTIONS request, the layers (router,      *)
(*                         index) the loop of next took while no error    *)
(*                         was pending                                    *)
(*              merge      the arguments of a call of mergeParams: params  *)
(*                         as given, parent as it is after the call       *)
(*              pfailAt    the layers for which a param callback has       *)
(*                         thrown or has given its continuation an error  *)
(*              pfail      a param callback has thrown or has given its    *)
(*                         continuation an argument                        *)
(***************************************************************************)
Pc(op, err) == [op |-> op, err |-> err]

\* Router.init: no param callbacks, mergeParams not set
init == [params |-> [n \in Names |-> 0], mergeParams |-> FALSE]

Top == frames[Len(frames)]

Depth == Len(frames)

(***************************************************************************)
(* application.js: settings.  An own property that is not there is Absent; *)
(* the functions compileTrust returns are "trustAll" and "trustNone".       *)
(***************************************************************************)
Apps == {"A0", "A1", "A2"}

SettingKeys ==
    {"k", "env", "trust proxy", "trust proxy fn", "case sensitive routing", "strict routing"}

Absent == "absent"

compileTrust(value) == IF value = "true" THEN "trustAll" ELSE "trustNone"

\* this.settings after defaultConfiguration: own holds the own properties,
\* proto is the application whose settings are the prototype ("none":
\* Object.prototype), tpd is the own property trustProxyDefaultSymbol
defaultConfiguration ==
    [own |-> [key \in SettingKeys |->
                CASE key = "env" -> "development"
                  [] key = "trust proxy" -> "false"
                  [] key = "trust proxy fn" -> compileTrust("false")
                  [] OTHER -> Absent],
     proto |-> "none", tpd |-> TRUE]

\* a variant of app_get that looks at the own properties only
app_get_own(ss, a, key) ==
    IF ss[a].own[key] # Absent THEN ss[a].own[key] ELSE "undefined"

\* app.set(key) with one argument: the value of the first object on the
\* prototype chain that has the key as own property, else undefined
RECURSIVE app_get(_, _, _)
app_get(ss, a, key) ==
    IF ss[a].own[key] # Absent THEN ss[a].own[key]
    ELSE IF ss[a].proto = "none" THEN "undefined"
    ELSE app_get(ss, ss[a].proto, key)

\* app.set(key, value)
app_set(ss, a, key, value) ==
    IF key = "trust proxy"
    THEN [ss EXCEPT ![a].own[key] = value,
                    ![a].own["trust proxy fn"] = compileTrust(value),
                    ![a].tpd = FALSE]
    ELSE [ss EXCEPT ![a].own[key] = value]

\* a variant of on_mount that leaves the defaults of a in place
on_mount_kept(ss, a, parent) == [ss EXCEPT ![a].proto = parent]

\* the listener of 'mount' of the application a, called with parent
on_mount(ss, a, parent) ==
    LET inherit == /\ ss[a].tpd = TRUE
                   /\ app_get(ss, parent, "trust proxy fn") \in {"trustAll", "trustNone"}
    IN  [ss EXCEPT ![a].own["trust proxy"] = IF inherit THEN Absent ELSE @,
                   ![a].own["trust proxy fn"] = IF inherit THEN Absent ELSE @,
                   ![a].proto = parent]

\* app.enabled(setting): Boolean(this.set(setting))
enabled(ss, a, setting) == app_get(ss, a, setting) = "true"

\* the Router of an application: the value of this._router
RouterOf(a) == IF a = "A0" THEN "R0" ELSE "R1"

\* the applications that are given a Router
Routed == {"A0", "A1"}

\* the options of the Router of every application (made: this._router is
\* not null), req.app and
\* res.app (req), the variables origApp of the activations of app.handle
\* that are on the call stack, innermost last (orig), and whether the Router
\* mounted in R0 is the one of the application A1 (mounted)
InitApp ==
    [_router |-> [a \in Apps |-> [made |-> FALSE, caseSensitive |-> FALSE,
                                  strict |-> FALSE]],
     req |-> "A0", orig |-> <<>>, mounted |-> FALSE]

\* the layers of the built-in middleware query and init
Builtin(name) == Layer("mw", Slash, FALSE, 3, name)

\* a variant of getRouter that creates the Router anew at every call
getRouter_anew(ap, ss, a) ==
    [ap EXCEPT !._router[a] =
        [made |-> TRUE, caseSensitive |-> enabled(ss, a, "case sensitive routing"),
         strict |-> enabled(ss, a, "strict routing")]]

\* getRouter: this._router with its options after the call
getRouter(ap, ss, a) ==
    IF ap._router[a].made THEN ap
    ELSE [ap EXCEPT !._router[a] =
            [made |-> TRUE, caseSensitive |-> enabled(ss, a, "case sensitive routing"),
             strict |-> enabled(ss, a, "strict routing")]]

\* getRouter: the stack of this._router after the call, rs being the stacks
\* of the Routers there are
getRouter_stack(ap, rs, a) ==
    IF ap._router[a].made THEN rs[RouterOf(a)]
    ELSE <<Builtin("query"), Builtin("init")>>

\* app.handle of a mounted application: req.app = this, res.app = this, with
\* origApp on the call stack
app_handle(ap, a) ==
    IF ap.mounted THEN [ap EXCEPT !.req = a, !.orig = Append(@, ap.req)] ELSE ap

\* the function app.use registers for a mounted application is called when
\* the activation of handle fs1[Len(fs1)] was added to fs: middleware.handle
handle_mounted(ap, fs, fs1) ==
    IF Len(fs1) > Len(fs) /\ fs1[Len(fs1)].kind = "router"
    THEN app_handle(ap, "A1") ELSE ap

\* the call stack is left: every activation of app.handle on it sets req.app
\* and res.app to its origApp, the outermost last
app_returned(ap) ==
    IF ap.orig = <<>> THEN ap ELSE [ap EXCEPT !.req = ap.orig[1], !.orig = <<>>]

\* the applications on the prototype chain of the settings of a
RECURSIVE Chain(_, _)
Chain(ss, a) == IF ss[a].proto = "none" THEN {a} ELSE {a} \cup Chain(ss, ss[a].proto)

InitReq ==
    [method |-> "GET", url |-> Undef, baseUrl |-> Undef, originalUrl |-> Undef,
     next |-> 0, params |-> NoParams, route |-> <<"none", 0>>]

InitH ==
    [trace |-> <<>>, how |-> "none", val |-> "none", sigRoute |-> {}, sigRouter |-> {},
     ptrace |-> <<>>, phow |-> "none", pval |-> "none", pfail |-> FALSE,
     pleft |-> [n \in Names |-> Undef], pfailAt |-> {},
     merge |-> [params |-> NoParams, parent |-> NoParams],
     clean |-> {}, deferred |-> FALSE, outAt |-> -1, args |-> <<>>,
     call |-> [li |-> 0, path |-> Undef, was |-> NoFields],
     explicit |-> [a \in Apps |-> [key \in SettingKeys |-> Absent]]]

\* no request waits while another is handled
NoParked == [req |-> InitReq, frames |-> <<>>, pc |-> Pc("none", "none"), h |-> InitH]

\* what the model holds next to one request on one stack of layers: the
\* fields params and path of the Layer objects as their constructor leaves
\* them, no second request, the applications as they are created
Apart ==
    /\ matched = [r \in RouterIds |-> <<>>]
    /\ parked = NoParked
    /\ settings = [a \in Apps |-> defaultConfiguration]
    /\ app = InitApp

Init ==
    /\ routers = [r \in RouterIds |-> <<>>]
    /\ self = [r \in RouterIds |-> init]
    /\ nfn = 0
    /\ phase = "setup"
    /\ req = InitReq
    /\ frames = <<>>
    /\ pc = Pc("idle", "none")
    /\ sent = <<>>
    /\ h = InitH
    /\ Apart

Mounted == \E i \in 1..Len(routers["R0"]) : routers["R0"][i].kind = "router"

\* a router whose layers a request can reach
Reachable(r) == r = "R0" \/ Mounted

(***************************************************************************)
(* Registration.                                                           *)
(***************************************************************************)
\* router.use(path, fn) with a handler function of 3 or 4 parameters
UseUpTo(r, path, arity, maxStack) ==
    /\ phase = "setup" /\ Reachable(r)
    /\ Len(routers[r]) < maxStack /\ nfn < MaxHandlers
    /\ routers' = [routers EXCEPT ![r] = use(@, path, arity, "none")]
    /\ nfn' = nfn + 1
    /\ UNCHANGED <<self, phase, req, frames, pc, sent, h>>
    /\ UNCHANGED <<matched, parked, settings, app>>

Use(r, path, arity) == UseUpTo(r, path, arity, MaxStack)

\* router.param(name, fn): fn is appended to this.params[name]
Param(r, name) ==
    /\ phase = "setup" /\ Reachable(r)
    /\ self[r].params[name] < MaxCallbacks
    /\ self' = [self EXCEPT ![r].params[name] = @ + 1]
    /\ UNCHANGED <<routers, nfn, phase, req, frames, pc, sent, h>>
    /\ UNCHANGED <<matched, parked, settings, app>>

\* R0.use(path, R1)
Mount(path) ==
    /\ phase = "setup" /\ ~Mounted
    /\ Len(routers["R0"]) < MaxStack
    /\ routers' = [routers EXCEPT !["R0"] = use(@, path, 3, "R1")]
    /\ UNCHANGED <<self, nfn, phase, req, frames, pc, sent, h>>
    /\ UNCHANGED <<matched, parked, settings, app>>

\* router.route(path)
RouteCreateUpTo(r, path, maxStack) ==
    /\ phase = "setup" /\ Reachable(r)
    /\ Len(routers[r]) < maxStack
    /\ routers' = [routers EXCEPT ![r] = route(@, path)]
    /\ UNCHANGED <<self, nfn, phase, req, frames, pc, sent, h>>
    /\ UNCHANGED <<matched, parked, settings, app>>

RouteCreate(r, path) == RouteCreateUpTo(r, path, MaxStack)

LastIsRoute(r) == Len(routers[r]) > 0 /\ LastOf(routers[r]).kind = "route"

\* route[verb](fn) on the Route created last in r
RouteVerbUpTo(r, verb, arity, maxLen) ==
    /\ phase = "setup" /\ LastIsRoute(r) /\ nfn < MaxHandlers
    /\ Len(LastOf(routers[r]).route.stack) < maxLen
    /\ routers' = [routers EXCEPT ![r][Len(routers[r])].route =
                        _registerRouteHandler(@, verb, arity)]
    /\ nfn' = nfn + 1
    /\ UNCHANGED <<self, phase, req, frames, pc, sent, h>>
    /\ UNCHANGED <<matched, parked, settings, app>>

RouteVerb(r, verb, arity) == RouteVerbUpTo(r, verb, arity, MaxRouteLen)

\* route.all(fn) on the Route created last in r
RouteAll(r, arity) ==
    /\ phase = "setup" /\ LastIsRoute(r) /\ nfn < MaxHandlers
    /\ Len(LastOf(routers[r]).route.stack) < MaxRouteLen
    /\ routers' = [routers EXCEPT ![r][Len(routers[r])].route = all(@, arity)]
    /\ nfn' = nfn + 1
    /\ UNCHANGED <<self, phase, req, frames, pc, sent, h>>
    /\ UNCHANGED <<matched, parked, settings, app>>

(***************************************************************************)
(* layer.js: Layer.handle_error, Layer.handle_request: where control goes  *)
(***************************************************************************)
\* a variant of handle_error that calls every function with the error
handle_error_any(layer, error) == Pc("fn", error)

handle_error(layer, error) ==
    IF layer.arity # 4 THEN Pc("next", error) ELSE Pc("fn", error)

\* a variant of handle_request that calls every function
handle_request_any(layer) == Pc("fn", "none")

handle_request(layer) ==
    IF layer.arity > 3 THEN Pc("next", "none") ELSE Pc("fn", "none")

\* a variant of the catch clause that swallows what was thrown
handle_catch_swallow(thrown) == Pc("next", "none")

\* the catch clause of handle_error / handle_request: next(err)
handle_catch(thrown) == Pc("next", thrown)

(***************************************************************************)
(* index.js: Router.handle                                                 *)
(***************************************************************************)
\* paramcalled: for no name a callback has run
NoCalled ==
    [n \in Names |-> [set |-> FALSE, error |-> "none", match |-> Undef, value |-> Undef]]

\* the local variables of process_params (and layerPath, path of next) while
\* a param callback runs: i keys were taken, paramIndex callbacks of the key
\* `name` were started
NoPP ==
    [i |-> 0, paramIndex |-> 0, name |-> "none", paramVal |-> Undef,
     layerPath |-> Empty, path |-> Empty]

\* the local variables of one activation of handle
RouterFrame(r, rq) ==
    [kind |-> "router", r |-> r, idx |-> 0,
     protohost |-> getProtohost(rq.url),
     removed |-> Empty, slashAdded |-> FALSE, options |-> <<>>,
     parentUrl |-> IF rq.baseUrl = Undef THEN Empty ELSE rq.baseUrl,
     vals |-> [baseUrl |-> rq.baseUrl, next |-> rq.next, params |-> rq.params],
     paramcalled |-> NoCalled, pp |-> NoPP, sync |-> 0,
     url0 |-> rq.url,   \* url0: req.url on entry, kept for the properties
     nest |-> 0]        \* nest: the activations of next on the call stack
                        \* that got past "max sync stack", kept for the
                        \* properties

\* what handle sets on the request before its first next()
handle(rq, depth) ==
    [rq EXCEPT !.next = depth,
               !.baseUrl = IF rq.baseUrl = Undef THEN Empty ELSE rq.baseUrl,
               !.originalUrl = IF rq.originalUrl = Undef THEN rq.url ELSE @]

\* restore(out, req, 'baseUrl', 'next', 'params')
restore(rq, vals) ==
    [rq EXCEPT !.baseUrl = vals.baseUrl, !.next = vals.next, !.params = vals.params]

\* next: "remove added slash" and "restore altered req.url"
next_url(f, rq) ==
    LET u == IF f.slashAdded THEN Slice(rq.url, 1) ELSE rq.url
    IN  IF Len(f.removed) # 0
        THEN f.protohost \o f.removed \o Slice(u, Len(f.protohost))
        ELSE u

next_baseUrl(f, rq) == IF Len(f.removed) # 0 THEN f.parentUrl ELSE rq.baseUrl

\* next: the sentinel 'route' is no error for a Router
next_layerError(err) == IF err = "route" THEN "none" ELSE err

\* a variant of sync_exceeded: next is never deferred
sync_never(sync) == FALSE

\* next: "max sync stack", ++sync > 100, with sync the incremented value
sync_exceeded(sync) == sync > SyncLimit

\* a variant of deferred: next is run again without its argument
deferred_no_err(err) == Pc("immediate", "none")

\* setImmediate(next, err)
deferred(err) == Pc("immediate", err)

\* the call stack is left: every activation of next on it returns, the ones
\* that called a layer by way of "sync = 0"
unwound(fs) == [i \in 1..Len(fs) |-> [fs[i] EXCEPT !.sync = 0, !.nest = 0]]

\* a variant of next_exit that ends an exhausted stack without the error
next_exit_clean(f, stack, layerError) ==
    IF layerError = "router" \/ f.idx >= Len(stack) THEN Pc("done", "none")
    ELSE Pc("scan", layerError)

\* next: the exits taken before a layer is looked for
next_exit(f, stack, layerError) ==
    IF layerError = "router" THEN Pc("done", "none")
    ELSE IF f.idx >= Len(stack) THEN Pc("done", layerError)
    ELSE Pc("scan", layerError)

\* a variant of scanned that does not keep idx between two calls of next: the
\* scan is at the first layer again
scanned_idx_lost(f, sc) ==
    [f EXCEPT !.idx = IF sc.matched THEN 1 ELSE @, !.options = sc.options]

\* next: idx and options are variables of handle, kept between calls of next
scanned(f, sc) == [f EXCEPT !.idx = sc.idx, !.options = sc.options]

\* next: the loop "find next matching layer"
RECURSIVE find_layer(_, _, _, _, _, _)
find_layer(stack, idx, path, layerError, method, options) ==
    IF idx >= Len(stack)
    THEN [matched |-> FALSE, idx |-> idx, layerError |-> layerError,
          options |-> options, m |-> NoMatch]
    ELSE LET layer == stack[idx + 1]
             m == matchLayer(layer, path)
             has_method == _can_handle(layer.route, method)
             opts == IF ~has_method /\ method = "OPTIONS"
                     THEN appendMethods(options, _handleable_method(layer.route))
                     ELSE options
         IN  IF ~m.ok
             THEN \* a thrown error: layerError = layerError || match
                  find_layer(stack, idx + 1, path,
                             IF layerError # "none" THEN layerError ELSE m.err,
                             method, options)
             ELSE IF layer.kind # "route"
             THEN [matched |-> TRUE, idx |-> idx + 1, layerError |-> layerError,
                   options |-> options, m |-> m]
             ELSE IF layerError # "none"
             THEN find_layer(stack, idx + 1, path, layerError, method, options)
             ELSE IF ~has_method /\ method # "HEAD"
             THEN find_layer(stack, idx + 1, path, layerError, method, opts)
             ELSE [matched |-> TRUE, idx |-> idx + 1, layerError |-> layerError,
                   options |-> opts, m |-> m]

\* a variant of breaks_on_separator: any character may follow the prefix
breaks_anywhere(c) == TRUE

\* trim_prefix: "Validate path breaks on a path separator"; c is "" where
\* path[layerPath.length] is undefined
breaks_on_separator(c) == c = "" \/ c = "/" \/ c = "."

\* a variant of trim_prefix that adds no slash and keeps a trailing slash in
\* the base URL
trim_prefix_bare(f, rq, layerPath, path) ==
    LET c == IF Len(path) > Len(layerPath) THEN path[Len(layerPath) + 1] ELSE ""
        cut == f.protohost \o Slice(rq.url, Len(f.protohost) + Len(layerPath))
    IN  IF Len(layerPath) = 0
        THEN [ok |-> TRUE, url |-> rq.url, baseUrl |-> rq.baseUrl,
              removed |-> f.removed, slashAdded |-> f.slashAdded]
        ELSE IF layerPath # Substring0(path, Len(layerPath))
                \/ ~breaks_on_separator(c)
        THEN [ok |-> FALSE, url |-> rq.url, baseUrl |-> rq.baseUrl,
              removed |-> f.removed, slashAdded |-> f.slashAdded]
        ELSE [ok |-> TRUE, url |-> cut, baseUrl |-> f.parentUrl \o layerPath,
              removed |-> layerPath, slashAdded |-> FALSE]

\* trim_prefix: the checks and the rewriting of req.url and req.baseUrl
trim_prefix(f, rq, layerPath, path) ==
    LET c == IF Len(path) > Len(layerPath) THEN path[Len(layerPath) + 1] ELSE ""
        cut == f.protohost \o Slice(rq.url, Len(f.protohost) + Len(layerPath))
        add == f.protohost = Empty /\ (cut = Empty \/ cut[1] # "/")
        base == f.parentUrl \o (IF LastOf(layerPath) = "/"
                                THEN Substring0(layerPath, Len(layerPath) - 1)
                                ELSE layerPath)
    IN  IF Len(layerPath) = 0
        THEN [ok |-> TRUE, url |-> rq.url, baseUrl |-> rq.baseUrl,
              removed |-> f.removed, slashAdded |-> f.slashAdded]
        ELSE IF layerPath # Substring0(path, Len(layerPath))
                \/ ~breaks_on_separator(c)
        THEN [ok |-> FALSE, url |-> rq.url, baseUrl |-> rq.baseUrl,
              removed |-> f.removed, slashAdded |-> f.slashAdded]
        ELSE [ok |-> TRUE, url |-> IF add THEN Slash \o cut ELSE cut,
              baseUrl |-> base, removed |-> layerPath, slashAdded |-> add]


(***************************************************************************)
(* route.js: Route.dispatch                                                *)
(***************************************************************************)
\* the local variables of one activation of dispatch
RouteFrame(r, li, rt, method) ==
    [kind |-> "route", r |-> r, li |-> li, index |-> 0,
     method |-> dispatch_method(rt, method), sync |-> 0,
     plain |-> TRUE,   \* plain: every handler so far called next(), kept
                       \* for the properties
     nest |-> 0]       \* nest: as for a Router

\* dispatch: a Route without layers calls back at once
dispatch(rt) == IF Len(rt.stack) = 0 THEN Pc("callback", "none") ELSE Pc("next", "none")

\* variants of dispatch next(err): one that does not compare layer.method,
\* one that takes 'route' for a plain next()
dispatch_next_unfiltered(f, stack, err) ==
    IF err = "route" THEN Pc("callback", "none")
    ELSE IF err = "router" THEN Pc("callback", err)
    ELSE IF f.index >= Len(stack) THEN Pc("callback", err)
    ELSE IF err # "none" THEN handle_error(stack[f.index + 1], err)
    ELSE handle_request(stack[f.index + 1])

dispatch_next_route_ignored(f, stack, err) ==
    IF err = "router" THEN Pc("callback", err)
    ELSE IF f.index >= Len(stack) THEN Pc("callback", "none")
    ELSE LET layer == stack[f.index + 1]
         IN  IF layer.method # "none" /\ layer.method # f.method THEN Pc("next", "none")
             ELSE handle_request(layer)

\* a variant of dispatch_next that calls back without the error at the end of
\* the layers
dispatch_next_error_dropped(f, stack, err) ==
    IF err = "route" THEN Pc("callback", "none")
    ELSE IF err = "router" THEN Pc("callback", err)
    ELSE IF f.index >= Len(stack) THEN Pc("callback", "none")
    ELSE IF stack[f.index + 1].method # "none" /\ stack[f.index + 1].method # f.method
    THEN Pc("next", err)
    ELSE IF err # "none" THEN handle_error(stack[f.index + 1], err)
    ELSE handle_request(stack[f.index + 1])

\* dispatch next(err): where control goes and whether the layer is passed
dispatch_next(f, stack, err) ==
    IF err = "route" THEN Pc("callback", "none")
    ELSE IF err = "router" THEN Pc("callback", err)
    ELSE IF f.index >= Len(stack) THEN Pc("callback", err)
    ELSE LET layer == stack[f.index + 1]
         IN  IF layer.method # "none" /\ layer.method # f.method THEN Pc("next", err)
             ELSE IF err # "none" THEN handle_error(layer, err)
             ELSE handle_request(layer)

\* a variant of Callback: a Router that was entered by a layer does not call
\* the next it was given
Callback_lost(depth, err) == IF depth > 1 THEN Pc("end", "none") ELSE Pc("out", err)

\* the callback of an activation: next of the activation below it, or the
\* outermost callback
Callback(depth, err) == IF depth > 1 THEN Pc("next", err) ELSE Pc("out", err)

InvokedIn(hh, r, li, ri) ==
    [hh EXCEPT !.trace = Append(@, [r |-> r, li |-> li, ri |-> ri])]

Invoked(r, li, ri) == InvokedIn(h, r, li, ri)

(***************************************************************************)
(* The request.                                                            *)
(***************************************************************************)
SetTop(f) == [frames EXCEPT ![Len(frames)] = f]

Pop == SubSeq(frames, 1, Len(frames) - 1)

\* router.handle(req, res, out) for a new request
Handle(method, url) ==
    /\ phase = "setup"
    /\ phase' = "run"
    /\ LET rq == [InitReq EXCEPT !.method = method, !.url = url]
       IN  /\ frames' = <<RouterFrame("R0", rq)>>
           /\ req' = handle(rq, 1)
    /\ pc' = Pc("next", "none")
    /\ UNCHANGED <<routers, self, nfn, sent, h>>
    /\ UNCHANGED <<matched, parked, settings, app>>

\* Router next(err), up to the exits that need no layer: done is called by
\* setImmediate, and so is next itself after more than 100 synchronous calls
RouterNext ==
    /\ pc.op = "next" /\ Top.kind = "router"
    /\ LET f == Top
           layerError == next_layerError(pc.err)
           f0 == [f EXCEPT !.slashAdded = FALSE, !.removed = Empty]
           p == next_exit(f, routers[f.r], layerError)
       IN  /\ req' = [req EXCEPT !.url = next_url(f, req),
                                 !.baseUrl = next_baseUrl(f, req)]
           /\ IF p.op = "done"
              THEN /\ frames' = unwound(SetTop(f0))
                   /\ pc' = p
              ELSE IF sync_exceeded(f.sync + 1)
              THEN /\ frames' = unwound(SetTop(f0))
                   /\ pc' = deferred(pc.err)
              ELSE /\ frames' = SetTop([f0 EXCEPT !.sync = @ + 1, !.nest = @ + 1])
                   /\ pc' = p
           /\ h' = IF layerError = "router"
                   THEN [h EXCEPT !.sigRouter = @ \cup {<<f.r, Len(h.trace)>>}]
                   ELSE IF p.op # "done" /\ sync_exceeded(f.sync + 1)
                   THEN [h EXCEPT !.deferred = TRUE]
                   ELSE h
    /\ UNCHANGED <<routers, self, nfn, phase, sent>>
    /\ app' = IF pc'.op \in {"done", "immediate"} THEN app_returned(app) ELSE app
    /\ UNCHANGED <<matched, parked, settings>>

\* a variant of Cbs: the callbacks of a name are those of R0 in every Router
Cbs_shared(r, name) == IF name \in Names THEN self["R0"].params[name] ELSE 0

\* the number of callbacks this.params[name] holds
Cbs(r, name) == IF name \in Names THEN self[r].params[name] ELSE 0

\* a variant of previously: the callbacks run again for every capture
previously_never(called, name, paramVal) == FALSE

\* process_params: "param previously called with same value or error occurred"
previously(called, name, paramVal) ==
    /\ called[name].set
    /\ \/ called[name].match = paramVal
       \/ called[name].error \notin {"none", "route"}

\* a variant of restore_value: the captured value is left in req.params
restore_value_captured(params, called, name) == params

\* process_params: req.params[key.name] = paramCalled.value
restore_value(params, called, name) == ParamSet(params, name, called[name].value)

\* process_params: param() called with no error when i keys of ks were
\* taken, up to the point where a callback has to run (run, with paramcalled
\* [name] set anew for the key ks[i]) or done(err) is called
RECURSIVE param(_, _, _, _, _)
param(r, ks, i, rq, called) ==
    IF i >= Len(ks)
    THEN [run |-> FALSE, err |-> "none", i |-> i, rq |-> rq, called |-> called]
    ELSE IF ParamGet(rq.params, ks[i + 1]) = Undef \/ Cbs(r, ks[i + 1]) = 0
    THEN param(r, ks, i + 1, rq, called)
    ELSE IF previously(called, ks[i + 1], ParamGet(rq.params, ks[i + 1]))
    THEN \* param previously called with same value or error occurred
         IF called[ks[i + 1]].error # "none"
         THEN [run |-> FALSE, err |-> called[ks[i + 1]].error, i |-> i + 1,
               rq |-> [rq EXCEPT !.params = restore_value(@, called, ks[i + 1])],
               called |-> called]
         ELSE param(r, ks, i + 1,
                    [rq EXCEPT !.params = restore_value(@, called, ks[i + 1])],
                    called)
    ELSE [run |-> TRUE, err |-> "none", i |-> i + 1, rq |-> rq,
          called |-> [called EXCEPT ![ks[i + 1]] =
                        [set |-> TRUE, error |-> "none",
                         match |-> ParamGet(rq.params, ks[i + 1]),
                         value |-> ParamGet(rq.params, ks[i + 1])]]]

\* callback k of the key `name` is started
ParamInvoked(hh, r, li, name, k, val) ==
    [hh EXCEPT !.ptrace = Append(@, [r |-> r, li |-> li, name |-> name, k |-> k,
                                     val |-> val, at |-> Len(hh.trace)])]

\* a variant of params_error: the error of the param callback is passed on
params_error_own(layerError, err) == err

\* next(layerError || err)
params_error(layerError, err) == IF layerError # "none" THEN layerError ELSE err

\* the callback next gives to process_params, called with err: next(layerError
\* || err), or the layer is handed the request: a Route by handle_request,
\* middleware by trim_prefix
process_done(f, rq, layerPath, path, layerError, err, hh) ==
    \E layer \in {routers[f.r][f.idx]} :
      IF err # "none"
      THEN /\ req' = rq
           /\ frames' = SetTop(f)
           /\ pc' = Pc("next", params_error(layerError, err))
           /\ h' = hh
      ELSE IF layer.kind = "route"
      THEN \* layer.handle_request runs route.dispatch
           /\ req' = rq
           /\ frames' = Append(SetTop(f), RouteFrame(f.r, f.idx, layer.route, rq.method))
           /\ pc' = dispatch(layer.route)
           /\ h' = InvokedIn(hh, f.r, f.idx, 0)
      ELSE
        \E t \in {trim_prefix(f, rq, layerPath, path)} :
        \E p \in {IF layerError # "none"
                  THEN handle_error(layer, layerError)
                  ELSE handle_request(layer)} :
        \E f2 \in {[f EXCEPT !.removed = t.removed, !.slashAdded = t.slashAdded]} :
        \E rq2 \in {[rq EXCEPT !.url = t.url, !.baseUrl = t.baseUrl]} :
          IF ~t.ok
          THEN \* trim_prefix: not on a path boundary, next(layerError)
               /\ req' = rq
               /\ frames' = SetTop(f)
               /\ pc' = Pc("next", layerError)
               /\ h' = hh
          ELSE IF p.op = "fn" /\ layer.kind = "router"
          THEN \* the handler is a router: its handle is entered
               /\ frames' = Append(SetTop(f2), RouterFrame(layer.sub, rq2))
               /\ req' = handle(rq2, Depth + 1)
               /\ pc' = Pc("next", "none")
               /\ h' = InvokedIn(hh, f.r, f.idx, 0)
          ELSE /\ req' = rq2
               /\ frames' = SetTop(f2)
               /\ pc' = p
               /\ h' = IF p.op = "fn" THEN InvokedIn(hh, f.r, f.idx, 0) ELSE hh

\* a variant of process_step: the layer is handed the request at once
process_step_skip(f, layerPath, path, layerError, pr, hh) ==
    process_done([f EXCEPT !.paramcalled = pr.called, !.pp = NoPP],
                 pr.rq, layerPath, path, layerError, pr.err, hh)

\* process_params goes on from the result pr of param: the first callback of
\* the next key that needs one is started, or done is called
process_step(f, layerPath, path, layerError, pr, hh) ==
    IF pr.run
    THEN \E name \in {keys(routers[f.r][f.idx].path)[pr.i]} :
           /\ req' = pr.rq
           /\ frames' = SetTop([f EXCEPT
                  !.paramcalled = pr.called,
                  !.pp = [i |-> pr.i, paramIndex |-> 1, name |-> name,
                          paramVal |-> pr.called[name].match,
                          layerPath |-> layerPath, path |-> path]])
           /\ pc' = Pc("pfn", layerError)
           /\ h' = ParamInvoked(hh, f.r, f.idx, name, 1, pr.called[name].match)
    ELSE process_done([f EXCEPT !.paramcalled = pr.called, !.pp = NoPP],
                      pr.rq, layerPath, path, layerError, pr.err, hh)

\* the history after the loop of next went from layer f.idx + 1 to layer
\* sc.idx
TookClean(f, sc, path) ==
    IF req.method # "OPTIONS" THEN h
    ELSE [h EXCEPT !.clean = @ \cup
            {<<f.r, j>> : j \in {k \in (f.idx + 1)..sc.idx :
                /\ pc.err = "none"
                /\ \A n \in (f.idx + 1)..(k - 1) :
                      match(routers[f.r][n], path).err = "none"}}]

\* Router next(err), from "get pathname of request" on: find the next
\* matching layer, set req.params, run process_params up to the first param
\* callback, if any, else hand the request to the layer
RouterScan ==
    /\ pc.op = "scan" /\ Top.kind = "router"
    /\ \E f \in {Top} :
       \E path \in {getPathname(req.url)} :
       \E sc \in {find_layer(routers[f.r], f.idx, path, pc.err, req.method, f.options)} :
       \E f1 \in {scanned(f, sc)} :
       \E hh \in {TookClean(f, sc, path)} :
          /\ IF ~sc.matched
             THEN \* no match: done(layerError)
                  /\ frames' = SetTop(f1)
                  /\ pc' = Pc("done", sc.layerError)
                  /\ h' = hh
                  /\ UNCHANGED req
             ELSE
               \E layer \in {routers[f.r][sc.idx]} :
               \E rq1 \in {[req EXCEPT !.params = next_params(self[f.r].mergeParams,
                                                              sc.m.params, f.vals.params),
                                       !.route = IF layer.kind = "route"
                                                 THEN <<f.r, sc.idx>> ELSE @]} :
                 process_step(f1, sc.m.path, path, sc.layerError,
                              param(f.r, keys(layer.path), 0, rq1, f1.paramcalled), hh)
          /\ matched' = [matched EXCEPT ![f.r] =
                 match_all(@, routers[f.r], f.idx + 1, sc.idx, path)]
    /\ app' = handle_mounted(app, frames, frames')
    /\ UNCHANGED <<routers, self, nfn, phase, sent, parked, settings>>

\* a variant of layerPath: layer.path is read when process_params is done
layerPath_late(f, this) == this.path

\* var layerPath = layer.path, read before process_params is called
layerPath(f, this) == f.pp.layerPath

\* a param callback calls its continuation with x (how = "next") or throws x
\* (how = "throw"), after it has set req.params[name] to v (Undef: it has left
\* the value alone): paramCallback(x)
ParamCallback(how, x, v) ==
    /\ pc.op = "pfn"
    /\ \E f \in {Top} :
       \E name \in {Top.pp.name} :
       \E rqv \in {IF v = Undef THEN req ELSE [req EXCEPT !.params = ParamSet(@, name, v)]} :
       \E called \in {[f.paramcalled EXCEPT
                          ![name].value = ParamGet(rqv.params, name),
                          ![name].error = IF x # "none" THEN x ELSE @]} :
       \E f0 \in {[f EXCEPT !.paramcalled = called, !.pp = NoPP]} :
       \E hh \in {[h EXCEPT !.phow = how, !.pval = x,
                              !.pfail = @ \/ x # "none",
                              !.pleft[name] = ParamGet(rqv.params, name),
                              !.pfailAt = IF x \in Errs THEN @ \cup {f.idx} ELSE @]} :
          IF x # "none"
          THEN \* store error, param(err): done(err)
               process_done(f0, rqv, layerPath(f, matched[f.r][f.idx]), f.pp.path, pc.err, x, hh)
          ELSE IF f.pp.paramIndex < Cbs(f.r, name)
          THEN \* the next callback of the name
               /\ req' = rqv
               /\ frames' = SetTop([f EXCEPT !.paramcalled = called,
                                            !.pp.paramIndex = @ + 1])
               /\ pc' = pc
               /\ h' = ParamInvoked(hh, f.r, f.idx, name, f.pp.paramIndex + 1,
                                    f.pp.paramVal)
          ELSE \* param(): the next key
               process_step(f0, layerPath(f, matched[f.r][f.idx]), f.pp.path, pc.err,
                            param(f.r, keys(routers[f.r][f.idx].path), f.pp.i, rqv, called),
                            hh)
    /\ UNCHANGED <<routers, self, nfn, phase, sent>>
    /\ app' = handle_mounted(app, frames, frames')
    /\ UNCHANGED <<matched, parked, settings>>

\* a param callback answers the request and does not call its continuation
ParamEnd ==
    /\ pc.op = "pfn"
    /\ pc' = Pc("end", "none")
    /\ h' = [h EXCEPT !.phow = "end", !.pval = "none"]
    /\ UNCHANGED <<routers, self, nfn, phase, req, frames, sent>>
    /\ UNCHANGED <<matched, parked, settings, app>>

\* done(err) of a Router: for OPTIONS the automatic response, else restore
\* and the outer callback
RouterDone ==
    /\ pc.op = "done" /\ Top.kind = "router"
    /\ LET f == Top
       IN  IF req.method = "OPTIONS" /\ pc.err = "none" /\ Len(f.options) # 0
           THEN \* sendOptionsResponse(res, options, old)
                /\ sent' = f.options
                /\ pc' = Pc("sent", "none")
                /\ UNCHANGED <<req, frames>>
           ELSE /\ req' = restore(req, f.vals)
                /\ frames' = Pop
                /\ pc' = Callback(Depth, pc.err)
                /\ UNCHANGED sent
    /\ UNCHANGED <<routers, self, nfn, phase, h>>
    /\ UNCHANGED <<matched, parked, settings, app>>

\* done(err) of the outermost Router for a request other than OPTIONS, where
\* a handler keeps the function next it was given: the variables of the
\* activation of handle stay
RouterDoneKept ==
    /\ pc.op = "done" /\ Top.kind = "router" /\ Depth = 1
    /\ req.method # "OPTIONS"
    /\ req' = restore(req, Top.vals)
    /\ pc' = Callback(Depth, pc.err)
    /\ h' = [h EXCEPT !.outAt = IF @ = -1 THEN Len(h.trace) ELSE @]
    /\ UNCHANGED <<routers, self, nfn, phase, frames, sent>>
    /\ UNCHANGED <<matched, parked, settings, app>>

\* Route.dispatch next(err)
RouteNext ==
    /\ pc.op = "next" /\ Top.kind = "route"
    /\ LET f == Top
           stack == routers[f.r][f.li].route.stack
           p == dispatch_next(f, stack, pc.err)
       IN  IF pc.err \notin {"route", "router"} /\ sync_exceeded(f.sync + 1)
           THEN \* max sync stack
                /\ pc' = deferred(pc.err)
                /\ frames' = unwound(frames)
                /\ h' = [h EXCEPT !.deferred = TRUE]
           ELSE /\ pc' = p
                /\ frames' = IF p.op = "callback" THEN frames
                             ELSE SetTop([f EXCEPT !.index = f.index + 1,
                                                  !.sync = @ + 1, !.nest = @ + 1])
                /\ h' = IF p.op = "fn" THEN Invoked(f.r, f.li, f.index + 1) ELSE h
    /\ UNCHANGED <<routers, self, nfn, phase, req, sent>>
    /\ app' = IF pc'.op = "immediate" THEN app_returned(app) ELSE app
    /\ UNCHANGED <<matched, parked, settings>>

\* the callback of Route.dispatch: next of the Router that dispatched (the
\* outermost callback when dispatch was called on its own)
RouteCallback ==
    /\ pc.op = "callback" /\ Top.kind = "route"
    /\ frames' = Pop
    /\ pc' = Callback(Depth, pc.err)
    /\ UNCHANGED <<routers, self, nfn, phase, req, sent, h>>
    /\ UNCHANGED <<matched, parked, settings, app>>

(***************************************************************************)
(* The handler functions: what a handler that was invoked does.            *)
(***************************************************************************)
Did(how, val) ==
    LET f == Top
        sr == IF how = "next" /\ val = "route" /\ f.kind = "route"
              THEN h.sigRoute \cup {<<f.r, f.li, f.index>>} ELSE h.sigRoute
    IN  [h EXCEPT !.how = how, !.val = val, !.sigRoute = sr]

Plain(isPlain) ==
    IF Top.kind = "route" /\ ~isPlain THEN SetTop([Top EXCEPT !.plain = FALSE])
    ELSE frames

\* the handler calls next(), next('route'), next('router') or next(e)
HandlerNext(x) ==
    /\ pc.op = "fn"
    /\ pc' = Pc("next", x)
    /\ h' = Did("next", x)
    /\ frames' = Plain(x = "none")
    /\ UNCHANGED <<routers, self, nfn, phase, req, sent>>
    /\ UNCHANGED <<matched, parked, settings, app>>

\* the handler returns and calls next(x) later, from a call stack of its own
HandlerNextLater(x) ==
    /\ pc.op = "fn"
    /\ pc' = Pc("next", x)
    /\ h' = Did("next", x)
    /\ frames' = unwound(Plain(x = "none"))
    /\ UNCHANGED <<routers, self, nfn, phase, req, sent>>
    /\ app' = app_returned(app)
    /\ UNCHANGED <<matched, parked, settings>>

\* a middleware function that was invoked calls the function next it was
\* given once more, after the outer callback was invoked
HandlerNextAgain(x) ==
    /\ pc.op = "out" /\ Depth = 1 /\ Len(h.trace) > 0
    /\ pc' = Pc("next", x)
    /\ h' = [h EXCEPT !.how = "again", !.val = x]
    /\ UNCHANGED <<routers, self, nfn, phase, req, frames, sent>>
    /\ UNCHANGED <<matched, parked, settings, app>>

\* router.handle(req, res, out) for a second request, while the first waits
\* for a handler or a param callback to call its continuation
Arrive(method, url) ==
    /\ phase = "run" /\ pc.op \in {"fn", "pfn"} /\ parked = NoParked
    /\ parked' = [req |-> req, frames |-> frames, pc |-> pc, h |-> h]
    /\ LET rq == [InitReq EXCEPT !.method = method, !.url = url]
       IN  /\ frames' = <<RouterFrame("R0", rq)>>
           /\ req' = handle(rq, 1)
    /\ pc' = Pc("next", "none")
    /\ h' = InitH
    /\ UNCHANGED <<routers, self, nfn, phase, sent, matched, settings, app>>

\* the event loop goes on with the other request: the request that was
\* handled waits or is finished
Switch ==
    /\ parked # NoParked /\ pc.op \in {"fn", "pfn", "out", "end"}
    /\ parked.pc.op \in {"fn", "pfn"}
    /\ parked' = [req |-> req, frames |-> frames, pc |-> pc, h |-> h]
    /\ req' = parked.req
    /\ frames' = parked.frames
    /\ pc' = parked.pc
    /\ h' = parked.h
    /\ UNCHANGED <<routers, self, nfn, phase, sent, matched, settings, app>>

\* the callback of setImmediate(next, err) runs next(err)
Immediate ==
    /\ pc.op = "immediate"
    /\ pc' = Pc("next", pc.err)
    /\ UNCHANGED <<routers, self, nfn, phase, req, frames, sent, h>>
    /\ UNCHANGED <<matched, parked, settings, app>>

\* the handler throws e synchronously
HandlerThrow(e) ==
    /\ pc.op = "fn"
    /\ pc' = handle_catch(e)
    /\ h' = Did("throw", e)
    /\ frames' = Plain(FALSE)
    /\ UNCHANGED <<routers, self, nfn, phase, req, sent>>
    /\ UNCHANGED <<matched, parked, settings, app>>

\* the handler answers the request and does not call next
HandlerEnd ==
    /\ pc.op = "fn"
    /\ pc' = Pc("end", "none")
    /\ h' = Did("end", "none")
    /\ frames' = Plain(FALSE)
    /\ UNCHANGED <<routers, self, nfn, phase, req, sent>>
    /\ app' = app_returned(app)
    /\ UNCHANGED <<matched, parked, settings>>

Signals == {"none", "route", "router"} \cup Errs

(***************************************************************************)
(* Spec: one Router holding middleware and Routes.                         *)
(***************************************************************************)
Next ==
    \/ \E path \in UsePaths, arity \in {3, 4} : Use("R0", path, arity)
    \/ \E path \in RoutePaths : RouteCreate("R0", path)
    \/ \E verb \in Verbs, arity \in {3, 4} : RouteVerb("R0", verb, arity)
    \/ \E arity \in {3, 4} : RouteAll("R0", arity)
    \/ \E method \in Methods, url \in Urls : Handle(method, url)
    \/ RouterNext
    \/ RouterScan
    \/ RouterDone
    \/ RouteNext
    \/ RouteCallback
    \/ \E x \in Signals : HandlerNext(x)
    \/ \E e \in Errs : HandlerThrow(e)
    \/ HandlerEnd

Spec == Init /\ [][Next]_vars

(***************************************************************************)
(* SpecOptions: OPTIONS requests to one Router holding up to three layers:  *)
(* middleware, error handlers and Routes.                                  *)
(***************************************************************************)
NextOptions ==
    \/ \E arity \in {3, 4} : UseUpTo("R0", Slash, arity, MaxOptStack)
    \/ \E path \in OptRoutePaths : RouteCreateUpTo("R0", path, MaxOptStack)
    \/ \E verb \in OptVerbs : RouteVerb("R0", verb, 3)
    \/ RouteAll("R0", 3)
    \/ Handle("OPTIONS", PathAB)
    \/ RouterNext
    \/ RouterScan
    \/ RouterDone
    \/ RouteNext
    \/ RouteCallback
    \/ \E x \in {"none", "router", "e1"} : HandlerNext(x)
    \/ HandlerEnd

SpecOptions == Init /\ [][NextOptions]_vars

(***************************************************************************)
(* SpecSupported: Routes built by verb and all() registrations, and asked   *)
(* for their supported methods.                                            *)
(***************************************************************************)
\* route._handleable_method() on the Route created last; the result is kept
\* in sent
Supported(r) ==
    /\ phase = "setup" /\ LastIsRoute(r)
    /\ phase' = "asked"
    /\ sent' = _handleable_method(LastOf(routers[r]).route)
    /\ UNCHANGED <<routers, self, nfn, req, frames, pc, h>>
    /\ UNCHANGED <<matched, parked, settings, app>>

NextSupported ==
    \/ \E path \in OptRoutePaths : RouteCreate("R0", path)
    \/ \E verb \in OptVerbs : RouteVerb("R0", verb, 3)
    \/ RouteAll("R0", 3)
    \/ Supported("R0")

SpecSupported == Init /\ [][NextSupported]_vars

(***************************************************************************)
(* SpecSync: a Router with more than 100 middleware layers, or with one     *)
(* Route of more than 100 handlers; a handler calls next inside its call,  *)
(* or later.                                                               *)
(***************************************************************************)
\* the stack after n times router.use('/a', fn)
Uses(n) == [i \in 1..n |-> use(<<>>, PathA, 3, "none")[1]]

\* the Route after n times route.get(fn)
Gets(n) ==
    [stack |-> [i \in 1..n |-> _registerRouteHandler(NoRoute, "get", 3).stack[1]],
     methods |-> _registerRouteHandler(NoRoute, "get", 3).methods]

InitSync ==
    /\ routers \in {[R0 |-> Uses(SyncLayers), R1 |-> <<>>],
                    [R0 |-> [route(<<>>, PathAB) EXCEPT ![1].route = Gets(SyncLayers)],
                     R1 |-> <<>>]}
    /\ self = [r \in RouterIds |-> init]
    /\ nfn = SyncLayers
    /\ phase = "setup"
    /\ req = InitReq
    /\ frames = <<>>
    /\ pc = Pc("idle", "none")
    /\ sent = <<>>
    /\ h = InitH
    /\ Apart

NextSync ==
    \/ Handle("GET", PathAB)
    \/ RouterNext
    \/ RouterScan
    \/ RouterDone
    \/ RouteNext
    \/ RouteCallback
    \/ \E x \in {"none", "e1"} : HandlerNext(x)
    \/ \E x \in {"none", "e1"} : HandlerNextLater(x)
    \/ Immediate

SpecSync == InitSync /\ [][NextSync]_vars

(***************************************************************************)
(* SpecAgain: one Router holding middleware, whose handlers may call next   *)
(* again after the outer callback was invoked.                             *)
(***************************************************************************)
NextAgain ==
    \/ \E path \in {Slash, PathA}, arity \in {3, 4} : Use("R0", path, arity)
    \/ \E url \in {PathA, PathAB} : Handle("GET", url)
    \/ RouterNext
    \/ RouterScan
    \/ RouterDoneKept
    \/ \E x \in {"none", "router", "e1"} : HandlerNext(x)
    \/ \E x \in {"none", "e1"} : HandlerNextAgain(x)
    \/ HandlerEnd

SpecAgain == Init /\ [][NextAgain]_vars

(***************************************************************************)
(* SpecUse: Router.use called once on an empty stack with up to MaxArgs     *)
(* arguments: functions, strings and arrays of up to MaxArr elements, whose *)
(* elements may again be arrays.                                           *)
(***************************************************************************)
MaxArgs == 2
MaxArr == 2

Atoms == {Fn, Str(PathA)}

ArraysOf(first, rest) ==
    {Arr(<<>>)} \cup
    UNION {{Arr(<<a>> \o r) : a \in first, r \in [1..(n - 1) -> rest]} : n \in 1..MaxArr}

UseValues == Atoms \cup ArraysOf(Atoms \cup ArraysOf(Atoms, Atoms), Atoms \cup {Arr(<<Fn>>)})

UseArgLists == UNION {[1..n -> UseValues] : n \in 0..MaxArgs}

\* router.use(...args)
UseArgs(args) ==
    /\ phase = "setup" /\ routers["R0"] = <<>>
    /\ phase' = "used"
    /\ routers' = [routers EXCEPT !["R0"] = use_args(@, args).stack]
    /\ nfn' = Len(use_args(routers["R0"], args).stack)
    /\ pc' = Pc("used", use_args(routers["R0"], args).thrown)
    /\ h' = [h EXCEPT !.args = args]
    /\ UNCHANGED <<self, req, frames, sent, matched, parked, settings, app>>

NextUse == \E args \in UseArgLists : UseArgs(args)

SpecUse == Init /\ [][NextUse]_vars

(***************************************************************************)
(* SpecLayer: Layer.match called again and again on the layers of one      *)
(* stack, with paths that match, do not match, cannot be decoded, or are   *)
(* undefined; between the calls a handler may set a property of the object *)
(* it was given as req.params, which is the object layer.params.           *)
(***************************************************************************)
LayerPaths == MatchUrls \cup {Undef}

\* layer.match(path) for layer j of R0
Match(j, path) ==
    /\ phase = "setup" /\ j \in 1..Len(routers["R0"])
    /\ matched' = [matched EXCEPT !["R0"] = match_all(@, routers["R0"], j, j, path)]
    /\ h' = [h EXCEPT !.call = [li |-> j, path |-> path,
                                was |-> IF j <= Len(matched["R0"])
                                        THEN matched["R0"][j] ELSE NoFields]]
    /\ UNCHANGED <<routers, self, nfn, phase, req, frames, pc, sent, parked, settings, app>>

\* req.params[name] = v by a handler that was given layer.params of layer j
\* as req.params
SetParam(j, name, v) ==
    /\ phase = "setup" /\ j \in 1..Len(matched["R0"])
    /\ matched["R0"][j].params.def
    /\ matched["R0"][j].params.named[name] # v
    /\ matched' = [matched EXCEPT !["R0"][j].params = ParamSet(@, name, v)]
    /\ h' = [h EXCEPT !.call = [li |-> 0, path |-> Undef, was |-> NoFields]]
    /\ UNCHANGED <<routers, self, nfn, phase, req, frames, pc, sent, parked, settings, app>>

NextLayer ==
    \/ \E path \in MatchUsePaths : Use("R0", path, 3)
    \/ \E j \in 1..MaxStack, path \in LayerPaths : Match(j, path)
    \/ \E j \in 1..MaxStack : SetParam(j, "x", Changed)

SpecLayer == Init /\ [][NextLayer]_vars

(***************************************************************************)
(* SpecSettings: three applications, mounted in one another in any order,  *)
(* set settings before and after they are mounted.                         *)
(***************************************************************************)
SettingValues(key) ==
    CASE key = "k" -> {"v1", "v2"}
      [] key = "env" -> {"production"}
      [] OTHER -> {"true", "false"}

\* app.set(key, value)
AppSet(a, key, value) ==
    /\ phase = "setup"
    /\ settings' = app_set(settings, a, key, value)
    /\ h' = [h EXCEPT !.explicit[a][key] = value]
    /\ UNCHANGED <<routers, self, nfn, phase, req, frames, pc, sent, matched, parked, app>>

\* parent.use(a): a emits 'mount'; the settings of a application on the
\* prototype chain of parent cannot be given parent as prototype
AppMount(a, parent) ==
    /\ phase = "setup" /\ a \notin Chain(settings, parent)
    /\ settings[a].proto # parent
    /\ settings' = on_mount(settings, a, parent)
    /\ UNCHANGED <<routers, self, nfn, phase, req, frames, pc, sent, matched, parked, h, app>>

NextSettings ==
    \/ \E a \in Apps, key \in {"k", "env", "trust proxy"} :
          \E value \in SettingValues(key) : AppSet(a, key, value)
    \/ \E a, parent \in Apps : AppMount(a, parent)

SpecSettings == Init /\ [][NextSettings]_vars

(***************************************************************************)
(* SpecLazy: the routing calls of two applications, A1 mounted in A0 or    *)
(* not, while 'case sensitive routing' and 'strict routing' are set.       *)
(***************************************************************************)
MaxAppStack == 4

MaxLazyStack == 3

\* app.use(path, fn) with a function fn of `arity` parameters
AppUseUpTo(a, path, arity, maxStack) ==
    /\ phase = "setup" /\ nfn < MaxHandlers
    /\ Len(getRouter_stack(app, routers, a)) < maxStack
    /\ app' = getRouter(app, settings, a)
    /\ routers' = [routers EXCEPT ![RouterOf(a)] =
                      use(getRouter_stack(app, routers, a), path, arity, "none")]
    /\ nfn' = nfn + 1
    /\ UNCHANGED <<self, phase, req, frames, pc, sent, h, matched, parked, settings>>

AppUse(a, path, arity) == AppUseUpTo(a, path, arity, MaxAppStack)

\* app.route(path)
AppRoute(a, path) ==
    /\ phase = "setup"
    /\ Len(getRouter_stack(app, routers, a)) < MaxLazyStack
    /\ app' = getRouter(app, settings, a)
    /\ routers' = [routers EXCEPT ![RouterOf(a)] =
                      route(getRouter_stack(app, routers, a), path)]
    /\ UNCHANGED <<self, nfn, phase, req, frames, pc, sent, h, matched, parked, settings>>

\* app[verb](path, fn): getRouter().route(path)[verb](fn)
AppVerb(a, verb, path) ==
    /\ phase = "setup" /\ nfn < MaxHandlers
    /\ Len(getRouter_stack(app, routers, a)) < MaxLazyStack
    /\ app' = getRouter(app, settings, a)
    /\ \E stack \in {route(getRouter_stack(app, routers, a), path)} :
          routers' = [routers EXCEPT ![RouterOf(a)] =
                         [stack EXCEPT ![Len(stack)].route =
                             _registerRouteHandler(@, verb, 3)]]
    /\ nfn' = nfn + 1
    /\ UNCHANGED <<self, phase, req, frames, pc, sent, h, matched, parked, settings>>

\* app.param(name, fn)
AppParam(a, name) ==
    /\ phase = "setup"
    /\ self[RouterOf(a)].params[name] < MaxCallbacks
    /\ app' = getRouter(app, settings, a)
    /\ routers' = [routers EXCEPT ![RouterOf(a)] = getRouter_stack(app, routers, a)]
    /\ self' = [self EXCEPT ![RouterOf(a)].params[name] = @ + 1]
    /\ UNCHANGED <<nfn, phase, req, frames, pc, sent, h, matched, parked, settings>>

\* app.handle(req, res) for a new request: the request is given the
\* application and the Router handles it
AppHandle(a, method, url) ==
    /\ phase = "setup"
    /\ phase' = "run"
    /\ app' = [getRouter(app, settings, a) EXCEPT !.req = a]
    /\ routers' = [routers EXCEPT ![RouterOf(a)] = getRouter_stack(app, routers, a)]
    /\ LET rq == [InitReq EXCEPT !.method = method, !.url = url]
       IN  /\ frames' = <<RouterFrame(RouterOf(a), rq)>>
           /\ req' = handle(rq, 1)
    /\ pc' = Pc("next", "none")
    /\ UNCHANGED <<self, nfn, sent, h, matched, parked, settings>>

RoutingKeys == {"case sensitive routing", "strict routing"}

NextLazy ==
    \/ \E a \in Routed, key \in RoutingKeys : AppSet(a, key, "true")
    \/ AppSet("A1", "strict routing", "false")
    \/ AppMount("A1", "A0")
    \/ \E a \in Routed : AppUseUpTo(a, Slash, 3, MaxLazyStack)
    \/ \E a \in Routed : AppRoute(a, PathAB)
    \/ \E a \in Routed : AppVerb(a, "get", PathAB)
    \/ \E a \in Routed : AppParam(a, "id")
    \/ \E a \in Routed : AppHandle(a, "GET", PathAB)

SpecLazy == Init /\ [][NextLazy]_vars

(***************************************************************************)
(* SpecApp: an application A0 and an application A1 mounted in it, both    *)
(* holding middleware behind the built-in query and init, which call next  *)
(* before they return.                                                     *)
(***************************************************************************)
\* A0.use(path, A1) for an application A1 that has its Router: the function
\* that calls A1.handle becomes a layer of the Router of A0, A1 emits 'mount'
AppUseApp(path) ==
    /\ phase = "setup" /\ ~Mounted /\ app._router["A1"].made
    /\ Len(getRouter_stack(app, routers, "A0")) < MaxAppStack
    /\ app' = [getRouter(app, settings, "A0") EXCEPT !.mounted = TRUE]
    /\ routers' = [routers EXCEPT !["R0"] =
                      use(getRouter_stack(app, routers, "A0"), path, 3, "R1")]
    /\ settings' = on_mount(settings, "A1", "A0")
    /\ UNCHANGED <<self, nfn, phase, req, frames, pc, sent, h, matched, parked>>

\* the function that runs is query or init
RunsBuiltin ==
    /\ pc.op = "fn" /\ Top.kind = "router"
    /\ routers[Top.r][Top.idx].sub \in {"query", "init"}

NextApp ==
    \/ \E a \in Routed, path \in {Slash, PathA} : AppUse(a, path, 3)
    \/ \E path \in {Slash, PathA} : AppUseApp(path)
    \/ AppHandle("A0", "GET", PathAB)
    \/ RouterNext
    \/ RouterScan
    \/ RouterDone
    \/ HandlerNext("none")
    \/ ~RunsBuiltin /\ HandlerNextLater("none")
    \/ ~RunsBuiltin /\ HandlerEnd

SpecApp == Init /\ [][NextApp]_vars

(***************************************************************************)
(* SpecLive: a Router R0 holding middleware, a Route and a param callback, *)
(* and a Router R1 mounted in it; every handler and every param callback   *)
(* calls its continuation once, before it returns or in a later turn.  The *)
(* event loop runs whatever is due: a step of the traversal that can be    *)
(* taken is taken.                                                         *)
(***************************************************************************)
Traverse ==
    \/ RouterNext
    \/ RouterScan
    \/ RouterDone
    \/ RouteNext
    \/ RouteCallback
    \/ \E x \in {"none", "router", "e1"} : HandlerNext(x)
    \/ HandlerNextLater("none")
    \/ \E x \in {"none", "e2"} : ParamCallback("next", x, Undef)

NextLive ==
    \/ \E r \in RouterIds, path \in {Slash, PathId} : Use(r, path, 3)
    \/ Mount(PathId)
    \/ RouteCreate("R0", PathAB)
    \/ RouteVerb("R0", "get", 3)
    \/ Param("R0", "id")
    \/ \E method \in {"GET", "OPTIONS"} : Handle(method, PathAB)
    \/ Traverse

SpecLive == Init /\ [][NextLive]_vars /\ WF_vars(Traverse)

(***************************************************************************)
(* SpecRoute: one Route of up to MaxDispatch handlers, with middleware      *)
(* before or behind it while MaxHandlers allows.                           *)
(***************************************************************************)
MaxDispatch == 3

NextRoute ==
    \/ \E arity \in {3, 4} : Use("R0", Slash, arity)
    \/ RouteCreate("R0", PathAB)
    \/ \E verb \in {"get", "post"}, arity \in {3, 4} :
          RouteVerbUpTo("R0", verb, arity, MaxDispatch)
    \/ \E arity \in {3, 4} : RouteAll("R0", arity)
    \/ \E method \in {"GET", "HEAD"} : Handle(method, PathAB)
    \/ RouterNext
    \/ RouterScan
    \/ RouterDone
    \/ RouteNext
    \/ RouteCallback
    \/ \E x \in {"none", "e1"} : HandlerNext(x)
    \/ HandlerEnd

SpecRoute == Init /\ [][NextRoute]_vars

(***************************************************************************)
(* SpecArity: middleware and the handlers of a Route declare 2 to 5         *)
(* parameters (fn.length).                                                 *)
(***************************************************************************)
Arities == {2, 3, 4, 5}

NextArity ==
    \/ \E path \in {Slash, PathA}, arity \in Arities : Use("R0", path, arity)
    \/ RouteCreate("R0", PathAB)
    \/ \E arity \in Arities : RouteVerb("R0", "get", arity)
    \/ Handle("GET", PathAB)
    \/ RouterNext
    \/ RouterScan
    \/ RouterDone
    \/ RouteNext
    \/ RouteCallback
    \/ \E x \in {"none", "e1"} : HandlerNext(x)
    \/ HandlerThrow("e2")
    \/ HandlerEnd

SpecArity == Init /\ [][NextArity]_vars

(***************************************************************************)
(* SpecTwo: two requests through one Router holding middleware on paths    *)
(* with placeholders; a second request arrives while the first waits.      *)
(***************************************************************************)
NextTwo ==
    \/ \E path \in {Slash, PathId, PathAId} : Use("R0", path, 3)
    \/ Param("R0", "id")
    \/ \E url \in TwoUrls : Handle("GET", url)
    \/ \E url \in TwoUrls : Arrive("GET", url)
    \/ Switch
    \/ RouterNext
    \/ RouterScan
    \/ RouterDone
    \/ HandlerNext("none")
    \/ HandlerEnd
    \/ \E v \in {Undef, Changed} : ParamCallback("next", "none", v)

SpecTwo == Init /\ [][NextTwo]_vars

(***************************************************************************)
(* SpecMount: a Router R0 and a Router R1 mounted in it, both holding      *)
(* middleware.                                                             *)
(***************************************************************************)
NextMount ==
    \/ \E r \in RouterIds, path \in UsePaths, arity \in {3, 4} : Use(r, path, arity)
    \/ \E path \in UsePaths : Mount(path)
    \/ \E url \in MountUrls : Handle("GET", url)
    \/ RouterNext
    \/ RouterScan
    \/ RouterDone
    \/ \E x \in Signals : HandlerNext(x)
    \/ \E e \in Errs : HandlerThrow(e)
    \/ HandlerEnd

SpecMount == Init /\ [][NextMount]_vars


(***************************************************************************)
(* SpecMerge: a Router R0 and a Router R1 mounted in it on a path with a    *)
(* placeholder or on '*', each created with or without the option          *)
(* mergeParams.  Every handler calls next().                                *)
(***************************************************************************)
\* createRouter(options): init sets mergeParams from the options
InitMerge ==
    /\ routers = [r \in RouterIds |-> <<>>]
    /\ self \in [RouterIds -> {[init EXCEPT !.mergeParams = b] : b \in BOOLEAN}]
    /\ nfn = 0
    /\ phase = "setup"
    /\ req = InitReq
    /\ frames = <<>>
    /\ pc = Pc("idle", "none")
    /\ sent = <<>>
    /\ h = InitH
    /\ Apart

NextMerge ==
    \/ \E r \in RouterIds, path \in MergeUsePaths : Use(r, path, 3)
    \/ \E path \in MergeMountPaths : Mount(path)
    \/ \E url \in MergeUrls : Handle("GET", url)
    \/ RouterNext
    \/ RouterScan
    \/ RouterDone
    \/ HandlerNext("none")

SpecMerge == InitMerge /\ [][NextMerge]_vars


(***************************************************************************)
(* SpecMergeParams: mergeParams applied to the params of a layer and the    *)
(* params a Router was entered with.                                       *)
(***************************************************************************)
MaxPos == 2

ParamVals == {<<"a">>, <<"b">>}

PosKeys == UNION {[1..n -> ParamVals] : n \in 0..MaxPos}

\* objects with the positional keys 0..n-1 and some of the keys id and x
ParamObjects ==
    {[def |-> TRUE, pos |-> p, named |-> [id |-> i, x |-> x]] :
        p \in PosKeys, i \in ParamVals \cup {Undef}, x \in {<<"a">>, Undef}}

\* handle was entered with req.params = parent: parentParams
InitMergeParams ==
    /\ routers = [r \in RouterIds |-> <<>>]
    /\ self = [r \in RouterIds |-> [init EXCEPT !.mergeParams = TRUE]]
    /\ nfn = 0
    /\ phase = "merge"
    /\ \E parent \in ParamObjects \cup {NoParams} :
          /\ req = handle([InitReq EXCEPT !.url = Slash, !.params = parent], 1)
          /\ frames = <<RouterFrame("R0", [InitReq EXCEPT !.url = Slash,
                                                          !.params = parent])>>
    /\ pc = Pc("scan", "none")
    /\ sent = <<>>
    /\ h = InitH
    /\ Apart

\* req.params = mergeParams(layer.params, parentParams)
MergeParams(params) ==
    /\ phase = "merge" /\ pc.op = "scan"
    /\ req' = [req EXCEPT !.params = next_params(self[Top.r].mergeParams,
                                                 params, Top.vals.params)]
    /\ h' = [h EXCEPT !.merge = [params |-> params,
                                 parent |-> mergeParams_parent(params, Top.vals.params)]]
    /\ pc' = Pc("fn", "none")
    /\ UNCHANGED <<routers, self, nfn, phase, frames, sent>>
    /\ UNCHANGED <<matched, parked, settings, app>>

NextMergeParams == \E params \in ParamObjects : MergeParams(params)

SpecMergeParams == InitMergeParams /\ [][NextMergeParams]_vars


(***************************************************************************)
(* SpecScope: a Router R0 and a Router R1 mounted in it, created with or   *)
(* without mergeParams, both holding middleware on paths with placeholders *)
(* and param callbacks.  Every handler and callback calls next().          *)
(***************************************************************************)
ScopePaths == {Slash, PathId, PathX}

NextScope ==
    \/ \E r \in RouterIds, path \in ScopePaths : Use(r, path, 3)
    \/ \E path \in {Slash, PathId} : Mount(path)
    \/ \E r \in RouterIds : Param(r, "id")
    \/ \E url \in ParamUrls : Handle("GET", url)
    \/ RouterNext
    \/ RouterScan
    \/ RouterDone
    \/ HandlerNext("none")
    \/ ParamCallback("next", "none", Undef)

SpecScope == InitMerge /\ [][NextScope]_vars

(***************************************************************************)
(* SpecParam: one Router holding middleware on paths with placeholders,    *)
(* and param callbacks.  Handlers fail with e1, param callbacks with e2.   *)
(***************************************************************************)
NextParam ==
    \/ \E path \in ParamUsePaths, arity \in {3, 4} :
          UseUpTo("R0", path, arity, MaxParamStack)
    \/ \E name \in Names : Param("R0", name)
    \/ \E url \in ParamUrls : Handle("GET", url)
    \/ RouterNext
    \/ RouterScan
    \/ RouterDone
    \/ \E x \in {"none", "e1"} : HandlerNext(x)
    \/ \E v \in {Undef, Changed} : ParamCallback("next", "none", v)
    \/ \E x \in {"route", "e2"} : ParamCallback("next", x, Undef)
    \/ ParamCallback("throw", "e2", Undef)

SpecParam == Init /\ [][NextParam]_vars

(***************************************************************************)
(* SpecMatch: one Router holding middleware on a placeholder, on '*' and   *)
(* on a RegExp, and request paths that fail to decode or continue behind   *)
(* the matched prefix.                                                     *)
(***************************************************************************)
NextMatch ==
    \/ \E path \in MatchUsePaths, arity \in {3, 4} : Use("R0", path, arity)
    \/ \E url \in MatchUrls : Handle("GET", url)
    \/ RouterNext
    \/ RouterScan
    \/ RouterDone
    \/ \E x \in Signals : HandlerNext(x)
    \/ \E e \in Errs : HandlerThrow(e)
    \/ HandlerEnd

SpecMatch == Init /\ [][NextMatch]_vars

(***************************************************************************)
(* Properties.                                                             *)
(***************************************************************************)
TraceIdx == 1..Len(h.trace)

\* the Route held by layer li of router r, and its layer ri
RouteAt(r, li) == routers[r][li].route

HandlerAt(e) == RouteAt(e.r, e.li).stack[e.ri]

\* the indices of the handlers of Route (r, li) that ran, in the order they ran
RECURSIVE RanFrom(_, _, _)
RanFrom(r, li, k) ==
    IF k > Len(h.trace) THEN <<>>
    ELSE IF h.trace[k].r = r /\ h.trace[k].li = li /\ h.trace[k].ri > 0
    THEN <<h.trace[k].ri>> \o RanFrom(r, li, k + 1)
    ELSE RanFrom(r, li, k + 1)

Ran(r, li) == RanFrom(r, li, 1)

\* the indices i of stack, in increasing order, whose layer is registered
\* under one of `methods` ("none": with all()) with at most maxArity parameters
RECURSIVE RegisteredFrom(_, _, _, _)
RegisteredFrom(stack, methods, maxArity, i) ==
    IF i > Len(stack) THEN <<>>
    ELSE IF stack[i].method \in methods /\ stack[i].arity <= maxArity
    THEN <<i>> \o RegisteredFrom(stack, methods, maxArity, i + 1)
    ELSE RegisteredFrom(stack, methods, maxArity, i + 1)

Registered(stack, methods, maxArity) == RegisteredFrom(stack, methods, maxArity, 1)

\* the method whose handlers serve request method M on Route rt: M itself,
\* GET for a HEAD request when rt has no HEAD handler
Serving(rt, M) ==
    IF M = "HEAD" /\ ~Has(rt.methods, "head") THEN "get" ELSE toLowerCase(M)

Signalled(r) == \E s \in h.sigRouter : s[1] = r

\* C1: within one traversal of a Router the layers are handed the request in
\* strictly increasing stack order, so none is handed it twice (the handlers
\* of the model call next at most once)
C1_StackOrder ==
    \A i \in TraceIdx : \A j \in TraceIdx :
        (i < j /\ h.trace[i].ri = 0 /\ h.trace[j].ri = 0 /\ h.trace[i].r = h.trace[j].r)
            => h.trace[i].li < h.trace[j].li

\* two layers of one Router were handed the request
C1_Witness ==
    \E i \in TraceIdx : \E j \in TraceIdx :
        i < j /\ h.trace[i].ri = 0 /\ h.trace[j].ri = 0 /\ h.trace[i].r = h.trace[j].r

\* C2: no handler registered on a Route under a specific method other than
\* the request's runs (GET handlers run for HEAD only when the Route has no
\* HEAD handler); a Route with no registration for the method and no
\* all-handler is passed over: none of its handlers runs, no error becomes
\* pending that a handler did not raise, and the traversal ends only after
\* the whole stack was tried
NoRegistration(rt, M) ==
    /\ ~Has(rt.methods, "_all")
    /\ ~Has(rt.methods, toLowerCase(M))
    /\ ~(M = "HEAD" /\ Has(rt.methods, "get"))

C2_MethodFilter ==
    /\ \A i \in TraceIdx : h.trace[i].ri > 0 =>
          LET e == h.trace[i]
          IN  /\ HandlerAt(e).method \in {"none", Serving(RouteAt(e.r, e.li), req.method)}
              /\ ~NoRegistration(RouteAt(e.r, e.li), req.method)
    /\ pc.err \in Errs => (h.how \in {"next", "throw"} /\ h.val = pc.err)
    /\ (pc.op = "done" /\ ~Signalled(Top.r)) => Top.idx = Len(routers[Top.r])

\* a Route that matches the path and has no registration for the method was
\* passed over and a later layer of the Router runs
C2_Witness ==
    /\ pc.op = "fn" /\ Depth = 1 /\ Top.idx = 2
    /\ routers["R0"][1].kind = "route"
    /\ Len(routers["R0"][1].route.stack) > 0
    /\ match(routers["R0"][1], getPathname(Top.url0)).ok
    /\ NoRegistration(routers["R0"][1].route, req.method)

\* C3: when Route.dispatch calls back after every handler that ran called
\* next(), the handlers that ran are exactly the layers of at most 3
\* parameters registered with all() or under the serving method (the
\* request's method, GET for HEAD on a Route without HEAD handler), each once,
\* in registration order, and the callback gets no error; a Route without
\* layers calls back before any handler ran
C3_DispatchOrder ==
    (pc.op = "callback" /\ Top.kind = "route" /\ Top.plain) =>
        LET rt == RouteAt(Top.r, Top.li)
        IN  /\ Ran(Top.r, Top.li) =
                  Registered(rt.stack, {"none", Serving(rt, req.method)}, 3)
            /\ pc.err = "none"
            /\ Len(rt.stack) = 0 => Top.index = 0

\* a HEAD request ran two handlers of a Route, one of them registered under
\* GET, and dispatch called back
C3_Witness ==
    /\ pc.op = "callback" /\ Top.kind = "route" /\ Top.plain
    /\ req.method = "HEAD"
    /\ Len(Ran(Top.r, Top.li)) = 2
    /\ \E i \in 1..2 : RouteAt(Top.r, Top.li).stack[i].method = "get"

\* C3 as stated: the handlers that ran are exactly the layers registered
\* under the request's method plus the all() layers
C3_AsStated ==
    (pc.op = "callback" /\ Top.kind = "route" /\ Top.plain) =>
        LET rt == RouteAt(Top.r, Top.li)
        IN  /\ Ran(Top.r, Top.li) =
                  Registered(rt.stack, {"none", toLowerCase(req.method)}, 4)
            /\ pc.err = "none"

\* C4: for a HEAD request a Route without HEAD handler runs its GET handlers
\* (and all() handlers) and no others; a Route with a HEAD handler runs no
\* GET handler
C4_HeadFallback ==
    req.method = "HEAD" =>
        /\ \A i \in TraceIdx : h.trace[i].ri > 0 =>
              LET e == h.trace[i]
              IN  IF Has(RouteAt(e.r, e.li).methods, "head")
                  THEN HandlerAt(e).method \in {"none", "head"}
                  ELSE HandlerAt(e).method \in {"none", "get"}
        /\ (pc.op = "callback" /\ Top.kind = "route" /\ Top.plain
              /\ ~Has(RouteAt(Top.r, Top.li).methods, "head")) =>
              \A i \in 1..Len(RouteAt(Top.r, Top.li).stack) :
                  LET l == RouteAt(Top.r, Top.li).stack[i]
                  IN  (l.method = "get" /\ l.arity <= 3) =>
                          \E k \in 1..Len(Ran(Top.r, Top.li)) : Ran(Top.r, Top.li)[k] = i

\* a GET handler runs for a HEAD request
C4_Witness ==
    /\ req.method = "HEAD" /\ pc.op = "fn" /\ Top.kind = "route"
    /\ RouteAt(Top.r, Top.li).stack[Top.index].method = "get"

\* C5: after a handler of a Route called next('route') no later layer of that
\* Route runs, once that call of next is taken up the Route calls back and the
\* Router goes on with no error pending, and the Router goes on behind the
\* Route's layer and ends its traversal only when the whole stack was tried
C5_RouteSignal ==
    /\ \A s \in h.sigRoute :
          /\ \A i \in TraceIdx :
                ~(h.trace[i].r = s[1] /\ h.trace[i].li = s[2] /\ h.trace[i].ri > s[3])
          /\ Depth > 0 => frames[1].idx >= s[2]
    /\ (h.how = "next" /\ h.val = "route" /\ pc # Pc("next", "route")) =>
          /\ pc.err = "none"
          /\ pc.op = "done" => Top.idx = Len(routers[Top.r])

\* a handler called next('route') with a layer of its Route left, and a later
\* layer of the Router runs
C5_Witness ==
    \E s \in h.sigRoute :
        /\ s[3] < Len(RouteAt(s[1], s[2]).stack)
        /\ pc.op = "fn" /\ Top.kind = "router" /\ Top.r = s[1] /\ Top.idx > s[2]

\* C6: after next('router') was called in a Router no further layer of that
\* Router is handed the request, and the Router ends by calling its outer
\* callback with no error
C6_RouterSignal ==
    /\ \A s \in h.sigRouter :
          \A i \in TraceIdx : i > s[2] => h.trace[i].r # s[1]
    /\ (h.how = "next" /\ h.val = "router") =>
          /\ pc.op # "sent"
          /\ pc.op \in {"done", "out"} => pc.err = "none"

\* the Router mounted in R0 was entered and has completed
SubCompleted ==
    /\ Depth = 1
    /\ \E i \in TraceIdx :
          h.trace[i].r = "R0" /\ routers["R0"][h.trace[i].li].kind = "router"

\* C7: once a mounted Router has completed, the parent looks for its later
\* layers, and ends, with req.url being the URL the request came with
C7_ParentUrl ==
    (SubCompleted /\ pc.op \in {"scan", "done"}) => req.url = frames[1].url0

\* C8: when a Router calls its outer callback, req.url, req.baseUrl,
\* req.params and req.next are what they were when handle was entered
C8_RoundTrip ==
    [][(pc.op = "done" /\ pc'.op \in {"next", "out"}) =>
          /\ req'.url = Top.url0
          /\ req'.baseUrl = Top.vals.baseUrl
          /\ req'.params = Top.vals.params
          /\ req'.next = Top.vals.next]_vars

\* C9: whenever a Router looks for its next layer, req.url is the URL handle
\* was entered with and req.baseUrl the base URL it was entered with
C9_PutBack ==
    (pc.op = "scan" /\ Top.kind = "router") =>
        /\ req.url = Top.url0
        /\ req.baseUrl = Top.parentUrl

\* the layer whose handler function runs
Running ==
    IF Top.kind = "route" THEN RouteAt(Top.r, Top.li).stack[Top.index]
    ELSE routers[Top.r][Top.idx]

\* layer j of router r is an error handler that matches path
ErrorLayer(r, j, path) ==
    /\ routers[r][j].kind # "route"
    /\ routers[r][j].arity = 4
    /\ match(routers[r][j], path).ok

\* layer i of Route rt is an error handler that serves method M
RouteErrorLayer(rt, i, M) ==
    /\ rt.stack[i].arity = 4
    /\ rt.stack[i].method \in {"none", Serving(rt, M)}

\* C10: once a handler has thrown, the thrown value is the pending error
\* wherever control goes; the handler that runs next is an error handler, it
\* gets the thrown value, and no error handler that matches lies between the
\* two; the traversal ends with the thrown value only if no matching error
\* handler was left
C10_ThrownIsPending ==
    h.how = "throw" =>
        /\ pc.op \in {"next", "scan", "callback", "done", "out", "fn"}
        /\ pc.err = h.val
        /\ pc.op = "fn" =>
              LET a == h.trace[Len(h.trace) - 1]
                  b == h.trace[Len(h.trace)]
                  path == getPathname(frames[1].url0)
              IN  /\ Running.arity = 4
                  /\ a.r = b.r /\ a.li <= b.li
                  /\ \A j \in (a.li + 1)..(b.li - 1) : ~ErrorLayer(a.r, j, path)
                  /\ (a.ri > 0 /\ b.ri > 0) =>
                        /\ a.li = b.li
                        /\ \A i \in (a.ri + 1)..(b.ri - 1) :
                              ~RouteErrorLayer(RouteAt(a.r, a.li), i, req.method)
                  /\ (a.ri > 0 /\ b.ri = 0) =>
                        \A i \in (a.ri + 1)..Len(RouteAt(a.r, a.li).stack) :
                            ~RouteErrorLayer(RouteAt(a.r, a.li), i, req.method)
        /\ (pc.op = "done" /\ Top.kind = "router") =>
              \A j \in (h.trace[Len(h.trace)].li + 1)..Len(routers[Top.r]) :
                  ~ErrorLayer(Top.r, j, getPathname(Top.url0))

\* an error handler threw, and the next error handler runs with the value
\* it threw
C10_Witness ==
    /\ h.how = "throw" /\ pc.op = "fn" /\ pc.err = h.val
    /\ LET a == h.trace[Len(h.trace) - 1]
       IN  IF a.ri > 0 THEN HandlerAt(a).arity = 4 ELSE routers[a.r][a.li].arity = 4

\* the last two entries of the trace
Last == h.trace[Len(h.trace)]

Before == h.trace[Len(h.trace) - 1]

\* the entry e of the trace stands for a handler function that ran, not for a
\* Route that was entered
RanHandler(e) == e.ri > 0 \/ routers[e.r][e.li].kind # "route"

\* no error handler that serves the request lies behind the handler of entry
\* a and before position <<li, ri>> of the same Router
NoErrorLayerBetween(a, li, ri) ==
    /\ \A j \in (a.li + 1)..(li - 1) :
          ~ErrorLayer(a.r, j, getPathname(frames[1].url0))
    /\ a.ri > 0 =>
          \A i \in (a.ri + 1)..(IF li = a.li THEN ri - 1 ELSE Len(RouteAt(a.r, a.li).stack)) :
              ~RouteErrorLayer(RouteAt(a.r, a.li), i, req.method)

\* C11: after a handler called next(e) with an error e, e stays the pending
\* error; the next function that runs is a 4-parameter handler that gets e,
\* no Route is entered and no error handler that matches is passed over on
\* the way to it; the Router ends with e only when no matching error handler
\* was left
C11_ErrorDelivery ==
    (h.how = "next" /\ h.val \in Errs) =>
        /\ pc.op \in {"next", "scan", "callback", "done", "out", "fn"}
        /\ pc.err = h.val
        /\ pc.op = "fn" =>
              /\ Running.arity = 4
              /\ RanHandler(Before) /\ RanHandler(Last)
              /\ Before.r = Last.r
              /\ Last.li > Before.li \/ (Last.li = Before.li /\ Last.ri > Before.ri)
              /\ Last.ri > 0 => Last.li = Before.li
              /\ NoErrorLayerBetween(Before, Last.li, Last.ri)
        /\ pc.op # "fn" => RanHandler(Last)
        /\ (pc.op = "done" /\ Top.kind = "router") =>
              NoErrorLayerBetween(Last, Len(routers[Top.r]) + 1, 0)

\* a handler of a Route called next(e), a normal handler behind it in the
\* Route was passed over and an error handler of the Router runs with e
C11_Witness ==
    /\ h.how = "next" /\ h.val \in Errs /\ pc.op = "fn" /\ pc.err = h.val
    /\ Before.ri > 0 /\ Last.ri = 0
    /\ Before.ri < Len(RouteAt(Before.r, Before.li).stack)

\* C12: while an error is pending, a step that is not the step of a handler
\* function leaves the pending error as it is; the pending error goes away
\* only by a handler that calls next with no error (or does not call next)
C12_ErrorKept ==
    [][pc.err \in Errs =>
          /\ pc'.err = pc.err \/ pc.op = "fn"
          /\ pc'.err \notin Errs =>
                (pc.op = "fn" /\ h'.how \in {"next", "end"} /\ h'.val \notin Errs)]_vars

\* an error went through the Router to the outer callback
C12_Witness ==
    /\ pc.op = "out" /\ pc.err \in Errs
    /\ Len(routers["R0"]) = MaxStack

\* the layers of R0 the scan has passed over since the last handler ran: up
\* to the layer whose handler runs, or up to the end of the stack
PassedOver ==
    IF pc.op = "fn"
    THEN ((IF Len(h.trace) >= 2 THEN Before.li ELSE 0) + 1)..(Last.li - 1)
    ELSE ((IF Len(h.trace) >= 1 THEN Last.li ELSE 0) + 1)..Len(routers["R0"])

\* matching layer j of R0 against the request path throws
MatchThrows(j) == match(routers["R0"][j], getPathname(req.originalUrl)).err # "none"

\* C13: no handler runs for a layer whose match threw; when the next handler
\* runs, or the Router ends, the pending error is the error the last handler
\* raised, if it raised one, else the decoding error (status 400) if matching
\* threw for a layer passed over since, else none; a handler that runs with
\* an error pending has 4 parameters
C13_MatchError ==
    /\ \A i \in TraceIdx : ~MatchThrows(h.trace[i].li)
    /\ (pc.op \in {"fn", "done", "out"} /\ ~(h.how = "next" /\ h.val = "router")) =>
          pc.err = IF h.how \in {"next", "throw"} /\ h.val \in Errs THEN h.val
                   ELSE IF \E j \in PassedOver : MatchThrows(j) THEN DecodeError
                   ELSE "none"
    /\ pc.op = "fn" => (pc.err # "none" <=> Running.arity = 4)

\* matching threw for the first layer and the handler of the second layer, an
\* error handler, runs with the decoding error
C13_Witness ==
    /\ pc.op = "fn" /\ pc.err = DecodeError
    /\ Top.idx = 2 /\ MatchThrows(1)

\* the path the layers of the request are matched against
ReqPath == getPathname(req.originalUrl)

\* what the layers of R0 capture for name from the request path: the value,
\* or Undef where the layer does not match or has no such key
Captures(name) ==
    [j \in 1..Len(routers["R0"]) |->
        IF match(routers["R0"][j], ReqPath).ok
        THEN match(routers["R0"][j], ReqPath).params.named[name]
        ELSE Undef]

\* layer j captures a value that is not the value of the capture before it
NewCapture(caps, j) ==
    /\ caps[j] # Undef
    /\ \A k \in 1..(j - 1) :
          (caps[k] # Undef /\ \A n \in (k + 1)..(j - 1) : caps[n] = Undef)
              => caps[k] # caps[j]

\* the layers of R0 for which process_params has been entered, or passed by
Reached ==
    IF phase # "run" THEN 0
    ELSE IF Depth = 0 THEN Len(routers["R0"])
    ELSE frames[1].idx

\* the positions in ptrace where the first callback of name was started
Starts(name) == {i \in 1..Len(h.ptrace) : h.ptrace[i].name = name /\ h.ptrace[i].k = 1}

StartedFor(li, name) ==
    {h.ptrace[i].k : i \in {n \in 1..Len(h.ptrace) :
                               h.ptrace[n].li = li /\ h.ptrace[n].name = name}}

PatternPos(path, name) ==
    CHOOSE i \in 1..Len(path) : path[i] \in ParamTokens /\ KeyName(path[i]) = name

\* C16: the param callbacks started for one layer are started in the order of
\* the names in the layer's pattern and, for one name, in registration order
\* without gaps; while one runs the handler of the layer has not been invoked;
\* every one of them was started before the handler of the layer was invoked,
\* and when the handler is invoked every callback due for the layer has been
\* started and has called its continuation
C16_ParamOrder ==
    /\ \A i, j \in 1..Len(h.ptrace) :
          (i < j /\ h.ptrace[i].li = h.ptrace[j].li) =>
              \E path \in {routers["R0"][h.ptrace[i].li].path} :
                  \/ PatternPos(path, h.ptrace[i].name) < PatternPos(path, h.ptrace[j].name)
                  \/ /\ h.ptrace[i].name = h.ptrace[j].name
                     /\ h.ptrace[i].k < h.ptrace[j].k
    /\ \A j \in 1..Len(h.ptrace) :
          h.ptrace[j].k > 1 =>
              /\ h.ptrace[j - 1].li = h.ptrace[j].li
              /\ h.ptrace[j - 1].name = h.ptrace[j].name
              /\ h.ptrace[j - 1].k = h.ptrace[j].k - 1
    /\ \A i \in 1..Len(h.ptrace) : \A t \in TraceIdx :
          h.trace[t].li = h.ptrace[i].li => h.ptrace[i].at < t
    /\ pc.op = "pfn" =>
          /\ h.ptrace[Len(h.ptrace)].li = Top.idx
          /\ h.ptrace[Len(h.ptrace)].name = Top.pp.name
          /\ h.ptrace[Len(h.ptrace)].k = Top.pp.paramIndex
          /\ \A t \in TraceIdx : h.trace[t].li # Top.idx
    /\ (pc.op = "fn" /\ Depth = 1 /\ ~h.pfail) =>
          \A name \in Names :
          \E caps \in {Captures(name)} :
              (Cbs("R0", name) > 0 /\ NewCapture(caps, Top.idx)) =>
                  StartedFor(Top.idx, name) = 1..Cbs("R0", name)

\* the handler of a layer with the pattern /:id/:x is invoked after the two
\* callbacks of id and then the two callbacks of x
C16_Witness ==
    /\ pc.op = "fn" /\ Depth = 1 /\ Top.idx = 1
    /\ routers["R0"][1].path = PathIdX
    /\ Len(h.ptrace) = 4
    /\ h.ptrace[1].name = "id" /\ h.ptrace[2].name = "id"
    /\ h.ptrace[3].name = "x" /\ h.ptrace[4].name = "x"
    /\ h.ptrace[2].k = 2 /\ h.ptrace[4].k = 2

\* C17: when a param callback throws or gives its continuation an error, the
\* step goes to next with the error pending before, if there was one, and
\* with the callback's error otherwise, and starts neither a param callback
\* nor a handler; no handler of a layer one of whose param callbacks failed
\* is ever invoked, and the failed callback is the last one started for the
\* layer
C17_ParamError ==
    [][/\ (pc.op = "pfn" /\ h'.pval \in Errs) =>
             /\ pc' = Pc("next", IF pc.err \in Errs THEN pc.err ELSE h'.pval)
             /\ h'.ptrace = h.ptrace
             /\ h'.trace = h.trace
             /\ Top.idx \in h'.pfailAt
       /\ \A t \in 1..Len(h'.trace) : h'.trace[t].li \notin h'.pfailAt
       /\ \A i \in 1..Len(h'.ptrace) :
             h'.ptrace[i].li \in h.pfailAt => i <= Len(h.ptrace)
      ]_vars

\* a param callback has thrown e2 while e1, given to next by a handler before,
\* was pending: next goes on with e1
C17_Witness ==
    /\ pc = Pc("next", "e1") /\ Depth = 1
    /\ Top.idx \in h.pfailAt
    /\ h.phow = "throw" /\ h.pval = "e2"
    /\ h.ptrace[Len(h.ptrace)].li = Top.idx

\* lp is a prefix of path and is followed there by '/', by '.' or by nothing
OnBoundary(lp, path) ==
    /\ Len(lp) <= Len(path)
    /\ \A i \in 1..Len(lp) : lp[i] = path[i]
    /\ Len(path) > Len(lp) => path[Len(lp) + 1] \in {"/", "."}

\* C18: when next has selected a middleware layer whose matched prefix is
\* not empty, the handler is invoked only if the prefix is a prefix of the
\* request path followed by '/', '.' or the end of the path; otherwise the
\* step invokes no handler, leaves req.url and req.baseUrl as they were and
\* goes back to next, with the pending error kept
C18_PathBoundary ==
    [][(pc.op = "scan" /\ Depth = 1 /\ pc'.op \in {"fn", "next"}) =>
          \E path \in {getPathname(req.url)} :
          \E m \in {match(routers["R0"][frames'[1].idx], path)} :
              /\ m.ok
              /\ (pc'.op = "fn" /\ m.path # Empty) => OnBoundary(m.path, path)
              /\ (m.path # Empty /\ ~OnBoundary(m.path, path)) =>
                    /\ pc'.op = "next"
                    /\ pc.err # "none" => pc'.err = pc.err
                    /\ req'.url = req.url
                    /\ req'.baseUrl = req.baseUrl
                    /\ h'.trace = h.trace
      ]_vars

\* the layer with the RegExp /^\/a/ has matched the path /ab, and its handler
\* was not invoked
C18_Witness ==
    /\ pc = Pc("next", "none") /\ Depth = 1 /\ Top.idx = 1
    /\ routers["R0"][1].path = RegExpA /\ routers["R0"][1].arity = 3
    /\ req.originalUrl = PathAb /\ req.url = PathAb
    /\ h.trace = <<>>

\* the index in R0 of the layer that holds R1
MountIdx == CHOOSE i \in 1..Len(routers["R0"]) : routers["R0"][i].kind = "router"

\* C19: in a Router created without mergeParams the handler of a layer is
\* invoked with req.params holding that layer's captures of the url the
\* Router was entered with, and nothing else; when such a Router, mounted in
\* R0, has finished, req.params is again what R0 had set for the layer that
\* holds it
C19_OwnParams ==
    /\ (pc.op = "fn" /\ Top.kind = "router" /\ ~self[Top.r].mergeParams) =>
          req.params = match(routers[Top.r][Top.idx], getPathname(Top.url0)).params
    /\ (pc.op = "next" /\ Depth = 1 /\ Mounted /\ ~self["R1"].mergeParams) =>
          (Top.idx = MountIdx => req.params = match(routers["R0"][MountIdx], ReqPath).params)

\* R1, without mergeParams and mounted on /:id, has finished after a handler
\* in it was invoked for a layer that captured a value for x
C19_Witness ==
    /\ pc.op = "next" /\ Depth = 1 /\ Mounted /\ ~self["R1"].mergeParams
    /\ Top.idx = MountIdx
    /\ routers["R0"][MountIdx].path = PathId
    /\ req.params.named["id"] = <<"a">>
    /\ \E t \in TraceIdx : /\ h.trace[t].r = "R1"
                           /\ routers["R1"][h.trace[t].li].path = PathX

\* C20: the result of mergeParams(params, parent) for an object parent has
\* every named key of either argument, with the value of params where both
\* have the key; its positional keys are those of parent, in their places,
\* followed by those of params in their order; parent is as it was.  Without
\* an object parent the result is params
C20_MergeOverlay ==
    (phase = "merge" /\ pc.op = "fn") =>
        \E parent \in {Top.vals.params} :
        \E params \in {h.merge.params} :
            IF parent.def
            THEN /\ req.params.def
                 /\ \A n \in Names :
                       req.params.named[n] = IF params.named[n] # Undef
                                             THEN params.named[n]
                                             ELSE parent.named[n]
                 /\ req.params.pos = parent.pos \o params.pos
                 /\ h.merge.parent = parent
            ELSE req.params = params

\* both arguments have the key id and two positional keys
C20_Witness ==
    /\ phase = "merge" /\ pc.op = "fn"
    /\ Top.vals.params.def
    /\ Top.vals.params.named["id"] = <<"a">> /\ h.merge.params.named["id"] = <<"b">>
    /\ Top.vals.params.pos = <<<<"a">>, <<"b">>>>
    /\ h.merge.params.pos = <<<<"b">>, <<"b">>>>
    /\ req.params.named["id"] = <<"b">>
    /\ req.params.pos = <<<<"a">>, <<"b">>, <<"b">>, <<"b">>>>

\* layer j of R0 is a Route that matches the request path and has neither a
\* handler for OPTIONS nor one for all methods; with clean, the loop of next
\* took it while no error was pending
Contributes(j, clean) ==
    /\ routers["R0"][j].kind = "route"
    /\ match(routers["R0"][j], ReqPath).ok
    /\ ~Has(routers["R0"][j].route.methods, "options")
    /\ ~Has(routers["R0"][j].route.methods, "_all")
    /\ clean => <<"R0", j>> \in h.clean

\* the supported methods of the contributing Routes among the first n layers,
\* each method once, in the order first seen
RECURSIVE Allowed(_, _)
Allowed(n, clean) ==
    IF n = 0 THEN <<>>
    ELSE LET prev == Allowed(n - 1, clean)
             New(m) == ~Has(prev, m)
         IN  IF Contributes(n, clean)
             THEN prev \o SelectSeq(_handleable_method(routers["R0"][n].route), New)
             ELSE prev

\* C21: when the traversal of an OPTIONS request ends, then, if no error is
\* pending and some Route that matches the path and has no OPTIONS handler was
\* taken by the loop of next while no error was pending, the methods of those
\* Routes, each once and in the order first seen, are sent and the outer
\* callback is not invoked; else the outer callback is invoked with the
\* pending error and nothing is sent
C21_OptionsResponse ==
    [][(pc.op = "done" /\ req.method = "OPTIONS") =>
          \E allow \in {Allowed(Top.idx, TRUE)} :
              IF pc.err = "none" /\ allow # <<>>
              THEN pc'.op = "sent" /\ sent' = allow
              ELSE pc' = Pc("out", pc.err) /\ sent' = sent
      ]_vars

\* GET and HEAD were sent for two Routes, one with get and one with head,
\* and a middleware function ran before
C21_Witness ==
    /\ pc.op = "sent" /\ sent = <<"GET", "HEAD">>
    /\ Len(routers["R0"]) = 3
    /\ routers["R0"][1].kind = "mw"
    /\ routers["R0"][2].route.methods = <<"get">>
    /\ routers["R0"][3].route.methods = <<"head">>
    /\ h.how = "next" /\ h.val = "none"

\* C21 as stated: every Route the traversal passed that matches the path and
\* has no OPTIONS handler counts
C21_AsStated ==
    [][(pc.op = "done" /\ req.method = "OPTIONS") =>
          \E allow \in {Allowed(Top.idx, FALSE)} :
              IF pc.err = "none" /\ allow # <<>>
              THEN pc'.op = "sent" /\ sent' = allow
              ELSE pc' = Pc("out", pc.err) /\ sent' = sent
      ]_vars

\* the names of the HTTP methods a Route has a registration function for
HttpMethods == {"GET", "POST", "PUT", "HEAD", "DELETE", "OPTIONS"}

\* the verbs registered on the Route created last
RegisteredVerbs ==
    {LastOf(routers["R0"]).route.stack[i].method :
        i \in 1..Len(LastOf(routers["R0"]).route.stack)} \ {"none"}

\* C22: the result of _handleable_method has the registered methods in upper
\* case, and HEAD exactly when it or GET is registered, each once; every
\* element is the name of an HTTP method
C22_SupportedMethods ==
    phase = "asked" =>
        /\ {sent[i] : i \in 1..Len(sent)} =
              {toUpperCase(v) : v \in RegisteredVerbs}
                  \cup (IF "get" \in RegisteredVerbs THEN {"HEAD"} ELSE {})
        /\ \A i, j \in 1..Len(sent) : sent[i] = sent[j] => i = j
        /\ \A i \in 1..Len(sent) : sent[i] \in HttpMethods

\* C23: in no activation of handle or of dispatch more than 100 activations
\* of next that got to a layer are on the call stack; next is deferred only
\* when 100 of them are, and the deferral leaves the call stack
C23_SyncBound ==
    [][/\ \A i \in 1..Len(frames') : frames'[i].nest <= SyncLimit
       /\ (pc'.op = "immediate" /\ pc.op # "immediate") =>
             /\ Top.nest = SyncLimit
             /\ \A i \in 1..Len(frames') : frames'[i].nest = 0
      ]_vars

\* the handlers of the first 100 layers of a Router have called next inside
\* their calls, and the next after them is deferred
C23_Witness ==
    /\ pc.op = "immediate" /\ Top.kind = "router"
    /\ Top.idx = SyncLimit /\ Len(h.trace) = SyncLimit

\* the handler that acted last gave next the error e1
Failed == h.how = "next" /\ h.val = "e1"

\* C24: with next deferred by the bound on synchronous calls, the traversal
\* of a stack of handlers of three parameters goes as it does without: the
\* handlers are invoked in stack order, none skipped and none twice, up to
\* the first that gives next an error, which stays pending to the outer
\* callback; every middleware function sees req.url and req.baseUrl with its
\* prefix cut off, and between two layers they are as on entry
C24_DeferralTransparent ==
    /\ \A i \in TraceIdx :
          IF routers["R0"][1].kind = "route"
          THEN h.trace[i].li = 1 /\ h.trace[i].ri = i - 1
          ELSE h.trace[i].li = i
    /\ pc.op = "fn" =>
          /\ pc.err = "none" /\ ~Failed
          /\ Top.kind = "router" => (req.url = PathB /\ req.baseUrl = PathA)
          /\ Top.kind = "route" => (req.url = PathAB /\ req.baseUrl = Empty)
    /\ pc.op \in {"scan", "immediate", "done", "out"} =>
          /\ req.url = PathAB
          /\ pc.op # "out" => req.baseUrl = Empty
          /\ pc.err = IF Failed THEN "e1" ELSE "none"
    /\ (pc.op = "out" /\ ~Failed) =>
          Len(h.trace) = SyncLayers + (IF routers["R0"][1].kind = "route" THEN 1 ELSE 0)

\* the traversal of the middleware stack has ended without error after next
\* was deferred
C24_Witness ==
    /\ pc = Pc("out", "none") /\ routers["R0"][1].kind = "mw"
    /\ Len(h.trace) = SyncLayers
    /\ h.deferred

\* C25: once the outer callback of a traversal was invoked, no handler of a
\* layer of the Router is invoked for the request
C25_NoLayerAfterOut ==
    h.outAt # -1 => Len(h.trace) = h.outAt

\* the request rq with the activations fs at pc p and the history hh went
\* through the stack of R0 as its own path asks: the middleware invoked is
\* the layers that match its path, in stack order; what a param callback was
\* given, the prefix that is taken off req.url and the params a handler is
\* given come from the match of the layer with its path
Own(rq, fs, p, hh) ==
    \E stack \in {routers["R0"]} :
    \E path \in {getPathname(rq.originalUrl)} :
    \E m \in {[j \in 1..Len(stack) |-> match(stack[j], path)]} :
    \E upto \in {IF fs = <<>> THEN Len(stack)
                 ELSE IF p.op = "pfn" THEN fs[1].idx - 1 ELSE fs[1].idx} :
       /\ {hh.trace[i].li : i \in 1..Len(hh.trace)} = {j \in 1..upto : m[j].ok}
       /\ \A i, k \in 1..Len(hh.trace) : i < k => hh.trace[i].li < hh.trace[k].li
       /\ \A i \in 1..Len(hh.ptrace) :
             hh.ptrace[i].val = m[hh.ptrace[i].li].params.named[hh.ptrace[i].name]
       /\ p.op = "pfn" =>
             /\ fs[1].pp.layerPath = m[fs[1].idx].path
             /\ fs[1].pp.path = path
       /\ p.op = "fn" =>
             /\ fs[1].removed = m[fs[1].idx].path
             /\ rq.baseUrl \o rq.url \in {rq.originalUrl, fs[1].removed \o Slash}
             /\ \A n \in Names :
                   Cbs("R0", n) = 0 => rq.params.named[n] = m[fs[1].idx].params.named[n]

\* C26: when two requests go through one Router, one entering or going on
\* while the other waits for a handler or a param callback, each of them
\* goes through the stack as its own path asks, and a step of one leaves
\* the other as it was
C26_Interleaving ==
    [][/\ phase' = "run" => Own(req', frames', pc', h')
       /\ parked' # NoParked => Own(parked'.req, parked'.frames, parked'.pc, parked'.h)
       /\ parked' # parked =>
             /\ parked' = [req |-> req, frames |-> frames, pc |-> pc, h |-> h]
             /\ parked = NoParked \/
                   (parked = [req |-> req', frames |-> frames', pc |-> pc', h |-> h'])
      ]_vars

\* the first request waited in a param callback of layer 1 while the second
\* went through the same layer with another value; both were handed on
C26_Witness ==
    /\ parked # NoParked
    /\ pc.op = "fn" /\ parked.pc.op = "fn"
    /\ Top.idx = 1 /\ parked.frames[1].idx = 1
    /\ req.originalUrl = PathAB /\ parked.req.originalUrl = PathB \o PathA
    /\ Len(h.ptrace) > 0 /\ Len(parked.h.ptrace) > 0
    /\ matched["R0"][1].path = PathB
    /\ Top.removed = PathA /\ req.url = PathB

\* fn.length of the function a trace entry stands for; route.dispatch, the
\* function of a Route layer, declares 3 parameters
Declared(e) ==
    IF e.ri > 0 THEN HandlerAt(e).arity
    ELSE IF routers[e.r][e.li].kind = "route" THEN 3
    ELSE routers[e.r][e.li].arity

\* the error the last function that was invoked left pending, "none" before
\* the first one and after a plain next()
Pending == IF h.val \in Errs THEN h.val ELSE "none"

\* C29: a function that declares 4 parameters is invoked only while an error
\* is pending, a function that declares another number only while none is;
\* the layers in between are passed over with the error as it was, so the
\* function is given the error the last function left, and so is the outer
\* callback
C29_ByParameterCount ==
    [][/\ Len(h'.trace) > Len(h.trace) =>
             \E e \in {h'.trace[Len(h'.trace)]} :
                /\ Pending # "none" => Declared(e) = 4
                /\ Pending = "none" => Declared(e) # 4
                /\ pc'.op = "fn" => pc'.err = Pending
       /\ (pc'.op = "out" /\ pc.op # "out") => pc'.err = Pending
      ]_vars

\* the error of the first handler of a Route went past its second handler,
\* of 5 parameters, and reached middleware of 4 parameters
C29_Witness ==
    /\ pc = Pc("fn", "e1")
    /\ Len(routers["R0"]) = 2
    /\ routers["R0"][1].kind = "route"
    /\ Len(routers["R0"][1].route.stack) = 2
    /\ routers["R0"][1].route.stack[2].arity = 5
    /\ routers["R0"][2].kind = "mw" /\ routers["R0"][2].arity = 4
    /\ Len(h.trace) = 3 /\ h.trace[3].li = 2

\* the first argument is the path: it is not a function and not an array
\* whose first element that is not an array is a function
IsPath(arg) ==
    /\ arg.t # "function"
    /\ ~(arg.t = "array" /\ flat(arg.v) # <<>> /\ flat(arg.v)[1].t = "function")

\* an array whose first elements, taken one inside the other, end at an empty
\* array, while a function is its first element that is not an array
EmptyFirst(arg) ==
    /\ arg.t = "array" /\ first_of(arg).t = "array"
    /\ flat(arg.v) # <<>> /\ flat(arg.v)[1].t = "function"

\* what use does with args, given that args[1] is the path exactly when
\* isPath holds: TypeError when no middleware remains or a remaining value is
\* not a function, else one prefix-matching layer per function, all on the
\* path
UsedAs(isPath) ==
    \E args \in {h.args} :
    \E path \in {IF isPath THEN args[1] ELSE Str(Slash)} :
    \E rest \in {flat(IF isPath THEN Tail(args) ELSE args)} :
       IF rest = <<>> \/ \E i \in 1..Len(rest) : rest[i].t # "function"
       THEN pc.err = "TypeError"
       ELSE /\ pc.err = "none"
            /\ Len(routers["R0"]) = Len(rest)
            /\ \A i \in 1..Len(rest) :
                  /\ routers["R0"][i].path = path
                  /\ routers["R0"][i].kind = "mw" /\ ~routers["R0"][i].end

\* C27: Router.use takes its first argument as the path exactly when it is
\* not a function and not an array whose first non-array element is a
\* function, throws TypeError when no middleware remains or a remaining value
\* is not a function, and else appends one prefix-matching layer per
\* function, all on the path ('/' when none was given)
C27_UseArguments ==
    phase = "used" => UsedAs(Len(h.args) > 0 /\ IsPath(h.args[1]))

\* C28: after a call of match with a path that does not match or is
\* undefined, params and path of the Layer are undefined; after a call that
\* returns true, path is the prefix of the path that matched and params holds
\* the captures of this call and nothing else
C28_MatchFields ==
    h.call.li # 0 =>
       \E layer \in {routers["R0"][h.call.li]} :
       \E this \in {matched["R0"][h.call.li]} :
       \E m \in {match(layer, h.call.path)} :
          /\ (~m.ok /\ m.err = "none") => this = NoFields
          /\ m.ok =>
                /\ this.path = m.path
                /\ this.path = SubSeq(h.call.path, 1, Len(this.path))
                /\ this.params.def
                /\ this.params.pos = IF fast_star(layer)
                                      THEN <<decode_param(h.call.path).val>> ELSE <<>>
                /\ \A n \in Names :
                      this.params.named[n] =
                         IF fast_slash(layer) \/ fast_star(layer) \/ IsRegExp(layer.path)
                            \/ \A k \in 1..Len(keys(layer.path)) : keys(layer.path)[k] # n
                         THEN Undef
                         ELSE m.params.named[n]

\* '/:id' matched /a/b after a handler had set x on the object of an earlier
\* match of the layer
C28_Witness ==
    /\ h.call.li = 1 /\ h.call.path = PathAB
    /\ h.call.was.path = Slash \o <<"%", "6", "1">>
    /\ h.call.was.params.named["x"] = Changed
    /\ routers["R0"][1].path = PathId
    /\ matched["R0"][1].path = PathA
    /\ matched["R0"][1].params.named["id"] = <<"a">>
    /\ matched["R0"][1].params.named["x"] = Undef

\* the value application a set for key itself: by set after it was created,
\* else in defaultConfiguration, else Absent
SetItself(a, key) ==
    IF h.explicit[a][key] # Absent THEN h.explicit[a][key]
    ELSE defaultConfiguration.own[key]

\* what a read of key on a returns when a key the application set itself
\* reads as set and any other key as the parent reads it; with inheritDefault
\* 'trust proxy' that a mounted application has only by default counts as
\* not set
RECURSIVE Inherited(_, _, _)
Inherited(a, key, inheritDefault) ==
    IF /\ SetItself(a, key) # Absent
       /\ ~(/\ inheritDefault /\ key = "trust proxy"
            /\ h.explicit[a][key] = Absent /\ settings[a].proto # "none")
    THEN SetItself(a, key)
    ELSE IF settings[a].proto = "none"
    THEN (IF SetItself(a, key) # Absent THEN SetItself(a, key) ELSE "undefined")
    ELSE Inherited(settings[a].proto, key, inheritDefault)

\* C30: a mounted application reads a key it has not set as its parent reads
\* it at that moment, through any number of levels, and a key it has set as
\* it set it, but 'trust proxy' that it has only by default as its parent
\* reads it; a set on an application changes what is read only on the
\* applications whose chain holds it, never on its parent
C30_SettingsInherited ==
    [][/\ \A a \in Apps, key \in {"k", "env", "trust proxy"} :
             app_get(settings', a, key) = Inherited(a, key, TRUE)'
       /\ \A a \in Apps, key \in {"k", "env", "trust proxy"} :
             h'.explicit[a][key] # h.explicit[a][key] =>
                \A b \in Apps :
                   a \notin Chain(settings, b) =>
                      \A k2 \in SettingKeys :
                         app_get(settings', b, k2) = app_get(settings, b, k2)
      ]_vars

\* A2 is mounted in A1 and A1 in A0; A0 set k after that, A1 set nothing, and
\* A2 reads k of A0
C30_Witness ==
    /\ settings["A2"].proto = "A1" /\ settings["A1"].proto = "A0"
    /\ h.explicit["A0"]["k"] = "v2"
    /\ h.explicit["A1"]["k"] = Absent /\ h.explicit["A2"]["k"] = Absent
    /\ app_get(settings, "A2", "k") = "v2"
    /\ h.explicit["A2"]["env"] = "production"
    /\ app_get(settings, "A0", "env") = "development"

\* C30 as it is stated: a key the application set itself, by default too,
\* reads as it set it
C30_AsStated ==
    \A a \in Apps, key \in {"k", "env", "trust proxy"} :
       app_get(settings, a, key) = Inherited(a, key, FALSE)

\* C39: for an OPTIONS request, once a handler has signalled next('router')
\* the Router calls its outer callback with no error and no response is
\* written, whatever methods the Routes that matched before have put into
\* options
C39_RouterSignalOptions ==
    (req.method = "OPTIONS" /\ h.sigRouter # {}) =>
       /\ pc.op # "sent" /\ sent = <<>>
       /\ pc.op \in {"done", "out"} => pc.err = "none"

\* C38: when Router.use throws, the stack of the Router is as it was before
\* the call (empty here): no layer of the call was appended
C38_AtomicRegistration ==
    (phase = "used" /\ pc.err = "TypeError") => routers["R0"] = <<>>

\* the index in the Route that is dispatched of its handler that was invoked
\* last, 0 when none was
LastInRoute ==
    IF Last.r = Top.r /\ Last.li = Top.li THEN Last.ri ELSE 0

\* C33: in Route.dispatch, after a handler passed an error e, the handler
\* that is invoked next is the first later one of 4 parameters that serves the
\* request method, and it is given e; at the end of the layers the callback
\* is called with e when e is pending and without an error when none is, and
\* the Router that dispatched goes on with what the callback was given
C33_RouteError ==
    [][/\ (Depth > 1 /\ Top.kind = "route" /\ pc.op = "next"
            /\ pc.err \notin {"route", "router"}) =>
             \E rt \in {RouteAt(Top.r, Top.li)} :
                /\ pc.err = Pending
                /\ (pc'.op = "fn" /\ Pending # "none") =>
                      /\ pc'.err = Pending
                      /\ RouteErrorLayer(rt, Top'.index, req.method)
                      /\ \A k \in (LastInRoute + 1)..(Top'.index - 1) :
                            ~RouteErrorLayer(rt, k, req.method)
                /\ pc'.op = "callback" =>
                      /\ pc'.err = Pending
                      /\ Pending # "none" =>
                            \A k \in (LastInRoute + 1)..Len(rt.stack) :
                               ~RouteErrorLayer(rt, k, req.method)
       /\ (Depth > 1 /\ Top.kind = "route" /\ pc.op = "callback") =>
             /\ pc' = Pc("next", pc.err)
             /\ Top'.kind = "router" /\ Top'.idx = Top.li
      ]_vars

\* the first handler of a Route passed e1, the second, of 3 parameters, was
\* passed over and the third, of 4 parameters, is given e1
C33_Witness ==
    /\ Depth = 2 /\ Top.kind = "route" /\ pc = Pc("fn", "e1")
    /\ Top.index = 3 /\ Last.ri = 3 /\ Before.ri = 1
    /\ RouteAt(Top.r, Top.li).stack[2].arity = 3
    /\ RouteAt(Top.r, Top.li).stack[2].method = "get"

\* C34: after a mount an application on which 'trust proxy' was never set
\* reads 'trust proxy' and 'trust proxy fn' as its parent reads them, and one
\* on which it was set reads what was set and the function compiled from it,
\* also when the parent is set or mounted later
C34_TrustProxyOnMount ==
    [][\A a \in Apps :
          settings'[a].proto # "none" =>
             IF h'.explicit[a]["trust proxy"] = Absent
             THEN \A key \in {"trust proxy", "trust proxy fn"} :
                     app_get(settings', a, key) = app_get(settings', settings'[a].proto, key)
             ELSE /\ app_get(settings', a, "trust proxy") = h'.explicit[a]["trust proxy"]
                  /\ app_get(settings', a, "trust proxy fn") =
                        compileTrust(h'.explicit[a]["trust proxy"])
      ]_vars

\* A0 set 'trust proxy' to true; A1, mounted in A0, never set it and reads
\* true and the function that trusts; A2, mounted in A1, set it to false and
\* reads false
C34_Witness ==
    /\ settings["A1"].proto = "A0" /\ settings["A2"].proto = "A1"
    /\ h.explicit["A0"]["trust proxy"] = "true"
    /\ h.explicit["A1"]["trust proxy"] = Absent
    /\ h.explicit["A2"]["trust proxy"] = "false"
    /\ app_get(settings, "A1", "trust proxy") = "true"
    /\ app_get(settings, "A1", "trust proxy fn") = "trustAll"
    /\ app_get(settings, "A2", "trust proxy") = "false"
    /\ app_get(settings, "A2", "trust proxy fn") = "trustNone"

\* the activation of handle whose layer, or whose Route's handler, runs
InRouter == IF Top.kind = "route" THEN frames[Depth - 1] ELSE Top

\* C40: while a handler of a Route runs, or a middleware whose matched prefix
\* is empty, req.url and req.baseUrl are what they were when the Router was
\* entered; req.originalUrl is the URL the outermost Router was entered with
\* all along
C40_UrlFrame ==
    /\ (pc.op = "fn" /\ Len(InRouter.removed) = 0) =>
          /\ req.url = InRouter.url0
          /\ req.baseUrl = InRouter.parentUrl
    /\ Depth > 0 => req.originalUrl = frames[1].url0

\* the prefix without its trailing slash
NoTrailingSlash(prefix) ==
    IF prefix[Len(prefix)] = "/" THEN SubSeq(prefix, 1, Len(prefix) - 1) ELSE prefix

\* C32: while a layer registered with use runs for which a prefix was
\* trimmed, a mounted Router included, req.baseUrl is the base URL the Router
\* was entered with followed by the prefix without its trailing slash, and
\* when the request came with a URL that begins with '/', req.url begins with
\* '/'
C32_BaseUrl ==
    \A i \in 1..Depth :
       (frames[i].kind = "router" /\ Len(frames[i].removed) # 0) =>
          \E own \in {IF frames[i].vals.baseUrl = Undef THEN Empty
                      ELSE frames[i].vals.baseUrl} :
          \E base \in {own \o NoTrailingSlash(frames[i].removed)} :
             IF i = Depth
             THEN pc.op = "fn" =>
                     /\ req.baseUrl = base
                     /\ frames[1].url0[1] = "/" => (req.url # Empty /\ req.url[1] = "/")
             ELSE frames[i + 1].kind = "router" =>
                     /\ frames[i + 1].vals.baseUrl = base
                     /\ frames[1].url0[1] = "/" =>
                           (frames[i + 1].url0 # Empty /\ frames[i + 1].url0[1] = "/")

\* the Router mounted at '/a' runs a middleware that matched all of '/b': the
\* base URL is '/a/b' and req.url the slash that was added
C32_Witness ==
    /\ Depth = 2 /\ pc.op = "fn" /\ Top.kind = "router"
    /\ frames[1].url0 = PathAB /\ frames[1].removed = PathA
    /\ Top.removed = PathB /\ Top.slashAdded
    /\ req.baseUrl = PathAB /\ req.url = Slash

\* the entries of the record of param callbacks that were started by Router
\* r for the parameter name
StartedBy(pt, r, name) == {j \in 1..Len(pt) : pt[j].r = r /\ pt[j].name = name}

\* the last of them, 0 when there is none
LastStartedBy(pt, r, name) ==
    IF StartedBy(pt, r, name) = {} THEN 0
    ELSE CHOOSE j \in StartedBy(pt, r, name) : \A n \in StartedBy(pt, r, name) : n <= j

\* the names the pattern of layer li of Router r declares
OwnKeys(r, li) ==
    {keys(routers[r][li].path)[n] : n \in 1..Len(keys(routers[r][li].path))}

\* every layer that is invoked, a mounted Router too, has had the callbacks
\* of its own Router run for the values it captured, whatever callbacks
\* another Router has run for the name
NotSuppressed ==
    \A i \in 1..Depth :
       (frames[i].kind = "router" /\ frames[i].idx > 0 /\ (i < Depth \/ pc.op = "fn")) =>
          \A name \in OwnKeys(frames[i].r, frames[i].idx) :
             \E last \in {LastStartedBy(h.ptrace, frames[i].r, name)} :
                (/\ Cbs(frames[i].r, name) > 0
                 /\ ParamGet(matched[frames[i].r][frames[i].idx].params, name) # Undef) =>
                   /\ last > 0
                   /\ h.ptrace[last].k = Cbs(frames[i].r, name)
                   /\ h.ptrace[last].val =
                         ParamGet(matched[frames[i].r][frames[i].idx].params, name)

\* C36: a param callback that is started is one registered on the Router
\* whose layer is being processed, for a name the pattern of that layer
\* declares and the value that layer captured; the first callback of a name
\* is started when the callbacks this Router started last for the name were
\* for another value, whatever another Router has started; and no layer is
\* invoked without the callbacks of its own Router
C36_ParamScope ==
    [][/\ Len(h'.ptrace) > Len(h.ptrace) =>
             \E e \in {h'.ptrace[Len(h'.ptrace)]} :
             \E last \in {LastStartedBy(h.ptrace, e.r, e.name)} :
                /\ e.r = Top'.r /\ e.li = Top'.idx
                /\ e.name \in OwnKeys(e.r, e.li)
                /\ e.k <= self[e.r].params[e.name]
                /\ e.val = ParamGet(matched'[e.r][e.li].params, e.name)
                /\ e.k = 1 => (last = 0 \/ h.ptrace[last].val # e.val)
       /\ NotSuppressed'
      ]_vars

\* R1 is mounted on '/:id' and holds a layer on '/:id'; both Routers have a
\* callback for id: R0 started its callback for the id of the mount path, R1
\* its own for the id its layer captured, and the record of R0 is not touched
C36_Witness ==
    /\ Depth = 2 /\ pc.op = "fn" /\ Top.r = "R1"
    /\ frames[1].url0 = PathAA
    /\ Len(h.ptrace) = 2
    /\ h.ptrace[1].r = "R0" /\ h.ptrace[2].r = "R1"
    /\ h.ptrace[1].val = h.ptrace[2].val
    /\ frames[1].paramcalled["id"].set /\ Top.paramcalled["id"].set

\* the application whose Router is r
AppOf(r) == IF r = "R0" THEN "A0" ELSE "A1"

C31_Witness ==
    /\ app._router["A1"].made /\ ~app._router["A1"].caseSensitive
    /\ enabled(settings, "A1", "case sensitive routing")
    /\ Len(routers["R1"]) = 3

\* C31: an application creates its Router at the first call of use, route, a
\* verb, param or handle and never again; the Router has the options
\* caseSensitive and strict that the settings gave at that call, whatever is
\* set later, and query and init as its first two layers, in that order
C31_LazyRouter ==
    [][\A a \in Routed :
          /\ app._router[a].made => app'._router[a] = app._router[a]
          /\ (~app._router[a].made /\ app'._router[a].made) =>
                /\ app'._router[a].caseSensitive =
                      enabled(settings, a, "case sensitive routing")
                /\ app'._router[a].strict = enabled(settings, a, "strict routing")
                /\ routers[RouterOf(a)] = <<>>
          /\ (\/ routers'[RouterOf(a)] # routers[RouterOf(a)]
              \/ self'[RouterOf(a)] # self[RouterOf(a)]
              \/ (frames' # frames /\ frames'[1].r = RouterOf(a))) =>
                app'._router[a].made
          /\ IF ~app'._router[a].made THEN routers'[RouterOf(a)] = <<>>
             ELSE /\ Len(routers'[RouterOf(a)]) >= 2
                  /\ routers'[RouterOf(a)][1] = Builtin("query")
                  /\ routers'[RouterOf(a)][2] = Builtin("init")
                  /\ \A j \in 3..Len(routers'[RouterOf(a)]) :
                        routers'[RouterOf(a)][j].sub \notin {"query", "init"}
                  /\ \A j \in 1..Len(routers[RouterOf(a)]) :
                        routers'[RouterOf(a)][j] = routers[RouterOf(a)][j]
      ]_vars

\* the traversal has ended: the outer callback was called, or the automatic
\* response to OPTIONS was sent
Ended == pc.op \in {"out", "sent"}

\* C35: when every handler and param callback calls its continuation once,
\* a request that Router.handle was called with leads to the outer callback
\* or, for OPTIONS, to the automatic response; once that has happened nothing
\* more happens, so that it happens once, and never both
C35_Terminates ==
    /\ (phase = "run") ~> Ended
    /\ [][Ended => UNCHANGED vars]_vars
    /\ [](pc.op = "out" => sent = <<>>)

\* the outer callback was called after a traversal through a param
\* callback, the mounted Router, a handler in it, and a Route
C35_Witness ==
    /\ pc.op = "out" /\ Depth = 0
    /\ \E j \in 1..Len(h.trace) : h.trace[j].r = "R1"
    /\ \E j \in 1..Len(h.trace) : h.trace[j].ri > 0
    /\ Len(h.ptrace) > 0

=============================================================================
